---------------------------- MODULE Spec2Model ----------------------------
(***************************************************************************)
(* Credential authentication core of MySvelteApp.Server (Go):              *)
(* internal/modules/auth/app/service.go (Service.Register, Service.Login,  *)
(* validateRegister, validateLogin), the GORM user repository, the HMAC    *)
(* password hasher, the domain User constructor, the HTTP error mapping    *)
(* of internal/modules/auth/api/handlers.go, the JWT token generator and   *)
(* its options (infra/token/options.go), and the application/auth service  *)
(* (internal/application/auth/dtos.go) with the same use cases.            *)
(*                                                                         *)
(* A Go string is a sequence of characters; every character has a UTF-8    *)
(* width, so that len(s) (bytes) and the number of characters differ.      *)
(***************************************************************************)
EXTENDS Integers, Sequences, FiniteSets, TLC

(***************************************************************************)
(* Characters and the Go library functions the service uses on strings.    *)
(***************************************************************************)

\* ASCII letters, digits and punctuation of the model's alphabet.
AsciiLower == {"a", "b", "d", "o", "p", "r", "s", "w", "x", "y"}
AsciiUpper == {"A", "B", "D", "P"}
AsciiDigit == {"0", "1"}

\* Two-byte characters: e-acute (U+00E9, a lower-case letter), E-acute
\* (U+00C9, an upper-case letter), Arabic-Indic digit three (U+0663, Nd).
WideChars == {"e_acute", "E_acute", "arabic3"}

\* unicode.IsUpper / IsLower / IsDigit on the alphabet.
IsUpper(c) == c \in AsciiUpper \cup {"E_acute"}
IsLower(c) == c \in AsciiLower \cup {"e_acute"}
IsDigit(c) == c \in AsciiDigit \cup {"arabic3"}

\* unicode.IsSpace, as used by strings.TrimSpace; the regexp class \s
\* agrees with it on this alphabet.
IsSpace(c) == c = " "

\* The class [a-zA-Z0-9_] of usernameRegex: ASCII only.
IsWordChar(c) == c \in AsciiLower \cup AsciiUpper \cup AsciiDigit \cup {"_"}

\* Number of bytes of the UTF-8 encoding of one character.
Width(c) == IF c \in WideChars THEN 2 ELSE 1

\* Go's len(s): the number of bytes of s.
ByteLen(s) == Len(s) + Cardinality({i \in 1..Len(s) : Width(s[i]) = 2})

\* unicode.ToLower on one character.
ToLowerChar(c) ==
  CASE c = "A" -> "a"
    [] c = "B" -> "b"
    [] c = "D" -> "d"
    [] c = "P" -> "p"
    [] c = "E_acute" -> "e_acute"
    [] OTHER -> c

\* A faulty strings.ToLower that leaves the letters as they are.
ToLowerIdentity(s) == s

\* strings.ToLower.
ToLower(s) == [i \in 1..Len(s) |-> ToLowerChar(s[i])]

\* strings.TrimSpace: s without its leading and trailing white space.
TrimSpace(s) ==
  LET keep == {i \in 1..Len(s) : ~IsSpace(s[i])}
  IN IF keep = {} THEN <<>>
     ELSE LET lo == CHOOSE i \in keep : \A j \in keep : i <= j
              hi == CHOOSE i \in keep : \A j \in keep : j <= i
          IN SubSeq(s, lo, hi)

\* strings.Contains(s, "..").
ContainsDotDot(s) == \E i \in 1..(Len(s) - 1) : s[i] = "." /\ s[i + 1] = "."

\* usernameRegex.MatchString: ^[a-zA-Z0-9_]+$
MatchUsername(s) == Len(s) >= 1 /\ \A i \in 1..Len(s) : IsWordChar(s[i])

\* emailRegex.MatchString: ^[^\s@]+@[^\s@.]+\.[^\s@.]+$
MatchEmail(s) ==
  \E k \in 2..Len(s) : \E d \in (k + 2)..(Len(s) - 1) :
    /\ s[k] = "@"
    /\ s[d] = "."
    /\ \A i \in 1..(k - 1) : ~IsSpace(s[i]) /\ s[i] # "@"
    /\ \A i \in ((k + 1)..Len(s)) \ {d} :
         ~IsSpace(s[i]) /\ s[i] # "@" /\ s[i] # "."

\* n copies of the character c (strings.Repeat).
Rep(c, n) == [i \in 1..n |-> c]

(***************************************************************************)
(* Validation (service.go, validateRegister / validateLogin).              *)
(***************************************************************************)

minUsernameLength == 3
minPasswordLength == 8
maxPasswordLength == 512
MaxUsernameLength == 64
MaxEmailLength == 320

\* The nil error / nil pointer.
Nil == [type |-> "nil"]

ValidationError(msg) == [type |-> "ValidationError", Message |-> msg]
ConflictError(msg) == [type |-> "ConflictError", Message |-> msg]
UnauthorizedError(msg) == [type |-> "UnauthorizedError", Message |-> msg]

MsgUsernameRequired == "Username is required."
MsgUsernameShort == "Username must be at least 3 characters long."
MsgUsernameLong == "Username must not exceed 64 characters."
MsgUsernamePattern == "Username can only contain letters, numbers, and underscores."
MsgEmailRequired == "Email is required."
MsgEmailLong == "Email must not exceed 320 characters."
MsgEmailInvalid == "Please enter a valid email address."
MsgPasswordRequired == "Password is required."
MsgPasswordShort == "Password must be at least 8 characters long."
MsgPasswordLong == "Password must not exceed 512 characters."
MsgPasswordWeak == "Password must contain at least one uppercase letter, one lowercase letter, and one number."
MsgUsernameTaken == "This username is already taken. Please choose a different one."
MsgEmailTaken == "This email is already registered. Please use a different email address."
MsgUnauthorized == "Invalid username or password. Please check your credentials and try again."

\* passwordMeetsRequirements: one upper, one lower, one digit (Unicode classes).
passwordMeetsRequirements(password) ==
  /\ \E i \in 1..Len(password) : IsUpper(password[i])
  /\ \E i \in 1..Len(password) : IsLower(password[i])
  /\ \E i \in 1..Len(password) : IsDigit(password[i])

\* validateRegister: the first failing case of the three switch statements.
validateRegister(cmd) ==
  LET username == TrimSpace(cmd.Username)
      email == TrimSpace(cmd.Email)
  IN CASE username = <<>> -> ValidationError(MsgUsernameRequired)
       [] ByteLen(username) < minUsernameLength -> ValidationError(MsgUsernameShort)
       [] ByteLen(username) > MaxUsernameLength -> ValidationError(MsgUsernameLong)
       [] ~MatchUsername(username) -> ValidationError(MsgUsernamePattern)
       [] OTHER ->
     CASE email = <<>> -> ValidationError(MsgEmailRequired)
       [] ByteLen(email) > MaxEmailLength -> ValidationError(MsgEmailLong)
       [] ContainsDotDot(email) -> ValidationError(MsgEmailInvalid)
       [] ~MatchEmail(email) -> ValidationError(MsgEmailInvalid)
       [] OTHER ->
     CASE TrimSpace(cmd.Password) = <<>> -> ValidationError(MsgPasswordRequired)
       [] ByteLen(cmd.Password) < minPasswordLength -> ValidationError(MsgPasswordShort)
       [] ByteLen(cmd.Password) > maxPasswordLength -> ValidationError(MsgPasswordLong)
       [] ~passwordMeetsRequirements(cmd.Password) -> ValidationError(MsgPasswordWeak)
       [] OTHER -> Nil

\* validateLogin: presence of username, then of password.
validateLogin(cmd) ==
  IF TrimSpace(cmd.Username) = <<>> THEN ValidationError(MsgUsernameRequired)
  ELSE IF TrimSpace(cmd.Password) = <<>> THEN ValidationError(MsgPasswordRequired)
  ELSE Nil

(***************************************************************************)
(* Infrastructure errors: plain Go errors, none of the three typed kinds.  *)
(***************************************************************************)

InfraError(msg) == [type |-> "error", Message |-> msg]

ErrCtxCanceled == InfraError("context canceled")
ErrDatabase == InfraError("database is unavailable")
ErrUniqueUsername == InfraError("UNIQUE constraint failed: users.username")
ErrUniqueEmail == InfraError("UNIQUE constraint failed: users.email")
ErrBlankUsername == InfraError("username cannot be blank")
ErrBlankEmail == InfraError("email cannot be blank")
ErrGenerateSalt == InfraError("generate salt")
ErrSignToken == InfraError("sign token")
ErrPasswordEmpty == InfraError("password cannot be empty")
ErrStoredMissing == InfraError("stored hash and salt must be provided")
ErrDecodeSalt == InfraError("decode salt")
ErrDecodeHash == InfraError("decode hash")

(***************************************************************************)
(* Password hasher (password_hasher.go, HMACPasswordHasher).               *)
(***************************************************************************)

\* A faulty digest that is the same for every key and message.
HMACConstant(key, msg) == <<"hmac-sha512", 0, <<>>>>

\* hmac.New(sha512.New, key) over msg: an injective keyed digest.
HMAC(key, msg) == <<"hmac-sha512", key, msg>>

\* base64.StdEncoding.EncodeToString / DecodeString: the encoding of a byte
\* string is a text; only such texts decode.
Base64Encode(bytes) == <<"base64", bytes>>
IsBase64(text) == Len(text) = 2 /\ text[1] = "base64"
Base64Decode(text) == text[2]

\* A faulty HashPassword that returns a salt other than the digest's key.
HashPasswordOtherSalt(password, salt, randFails) ==
  IF password = <<>> THEN [hash |-> <<>>, salt |-> <<>>, err |-> ErrPasswordEmpty]
  ELSE IF randFails THEN [hash |-> <<>>, salt |-> <<>>, err |-> ErrGenerateSalt]
  ELSE [hash |-> Base64Encode(HMAC(salt + 1, password)),
        salt |-> Base64Encode(salt),
        err |-> Nil]

\* HashPassword with the salt rand.Read produced (or its failure).
HashPassword(password, salt, randFails) ==
  IF password = <<>> THEN [hash |-> <<>>, salt |-> <<>>, err |-> ErrPasswordEmpty]
  ELSE IF randFails THEN [hash |-> <<>>, salt |-> <<>>, err |-> ErrGenerateSalt]
  ELSE [hash |-> Base64Encode(HMAC(salt, password)),
        salt |-> Base64Encode(salt),
        err |-> Nil]

\* VerifyPassword: recompute with the stored salt, compare with the stored hash.
VerifyPassword(password, storedHash, storedSalt) ==
  IF password = <<>> THEN [valid |-> FALSE, err |-> ErrPasswordEmpty]
  ELSE IF storedHash = <<>> \/ storedSalt = <<>>
    THEN [valid |-> FALSE, err |-> ErrStoredMissing]
  ELSE IF ~IsBase64(storedSalt) THEN [valid |-> FALSE, err |-> ErrDecodeSalt]
  ELSE IF ~IsBase64(storedHash) THEN [valid |-> FALSE, err |-> ErrDecodeHash]
  ELSE [valid |-> HMAC(Base64Decode(storedSalt), password) = Base64Decode(storedHash),
        err |-> Nil]

(***************************************************************************)
(* Domain user (user.go, NewUser) and the users table behind GORM.         *)
(***************************************************************************)

\* NewUser: the constructor's invariants; the id is zero until the insert.
NewUser(username, email, passwordHash, passwordSalt) ==
  LET name == TrimSpace(username)
      normalizedEmail == ToLower(TrimSpace(email))
  IN IF ByteLen(name) = 0 THEN [user |-> Nil, err |-> InfraError("username cannot be empty")]
     ELSE IF ByteLen(name) > MaxUsernameLength
       THEN [user |-> Nil, err |-> InfraError("username must not exceed 64 characters")]
     ELSE IF passwordHash = <<>>
       THEN [user |-> Nil, err |-> InfraError("password hash cannot be empty")]
     ELSE IF passwordSalt = <<>>
       THEN [user |-> Nil, err |-> InfraError("password salt cannot be empty")]
     ELSE IF TrimSpace(email) = <<>>
       THEN [user |-> Nil, err |-> InfraError("email cannot be empty")]
     ELSE IF ByteLen(normalizedEmail) > MaxEmailLength
       THEN [user |-> Nil, err |-> InfraError("email must not exceed 320 characters")]
     ELSE [user |-> [ID |-> 0, Username |-> name, Email |-> normalizedEmail,
                     PasswordHash |-> passwordHash, PasswordSalt |-> passwordSalt],
           err |-> Nil]

\* A users table without unique indexes: no INSERT is refused.
NoUniqueIndex(rows, user) == Nil

\* The unique indexes of the users table (gorm:"uniqueIndex" on Username
\* and on Email): the error an INSERT of user into rows raises, or Nil.
UniqueIndexError(rows, user) ==
  IF \E i \in 1..Len(rows) : rows[i].Username = user.Username THEN ErrUniqueUsername
  ELSE IF \E i \in 1..Len(rows) : rows[i].Email = user.Email THEN ErrUniqueEmail
  ELSE Nil

\* GormUserRepository.Add: INSERT; the table assigns the next id.
RepoAdd(rows, user, dbFails) ==
  IF user = Nil THEN [rows |-> rows, user |-> user, err |-> InfraError("user cannot be nil")]
  ELSE IF dbFails THEN [rows |-> rows, user |-> user, err |-> ErrDatabase]
  ELSE IF UniqueIndexError(rows, user) # Nil
    THEN [rows |-> rows, user |-> user, err |-> UniqueIndexError(rows, user)]
  ELSE LET stored == [user EXCEPT !.ID = Len(rows) + 1]
       IN [rows |-> Append(rows, stored), user |-> stored, err |-> Nil]

\* A faulty lookup that reports a failed query as "no such user".
RepoGetByUsernameSwallow(rows, username, dbFails) ==
  LET trimmed == TrimSpace(username)
      hits == {i \in 1..Len(rows) : rows[i].Username = trimmed}
  IN IF trimmed = <<>> THEN [user |-> Nil, err |-> ErrBlankUsername]
     ELSE IF dbFails \/ hits = {} THEN [user |-> Nil, err |-> Nil]
     ELSE [user |-> rows[CHOOSE i \in hits : \A j \in hits : i <= j], err |-> Nil]

\* GormUserRepository.GetByUsername: the row with that username, or nil.
RepoGetByUsername(rows, username, dbFails) ==
  LET trimmed == TrimSpace(username)
      hits == {i \in 1..Len(rows) : rows[i].Username = trimmed}
  IN IF trimmed = <<>> THEN [user |-> Nil, err |-> ErrBlankUsername]
     ELSE IF dbFails THEN [user |-> Nil, err |-> ErrDatabase]
     ELSE IF hits = {} THEN [user |-> Nil, err |-> Nil]
     ELSE [user |-> rows[CHOOSE i \in hits : \A j \in hits : i <= j], err |-> Nil]

\* GormUserRepository.UsernameExists: COUNT(*) WHERE username = trimmed.
RepoUsernameExists(rows, username, dbFails) ==
  LET trimmed == TrimSpace(username)
  IN IF trimmed = <<>> THEN [exists |-> FALSE, err |-> ErrBlankUsername]
     ELSE IF dbFails THEN [exists |-> FALSE, err |-> ErrDatabase]
     ELSE [exists |-> \E i \in 1..Len(rows) : rows[i].Username = trimmed, err |-> Nil]

\* GormUserRepository.EmailExists: COUNT(*) WHERE email = trimmed.
RepoEmailExists(rows, email, dbFails) ==
  LET trimmed == TrimSpace(email)
  IN IF trimmed = <<>> THEN [exists |-> FALSE, err |-> ErrBlankEmail]
     ELSE IF dbFails THEN [exists |-> FALSE, err |-> ErrDatabase]
     ELSE [exists |-> \E i \in 1..Len(rows) : rows[i].Email = trimmed, err |-> Nil]

(***************************************************************************)
(* Token generator (options.go, JWTTokenGenerator.GenerateToken).          *)
(***************************************************************************)

\* A key is a string of bytes (0..255), as decodeKey reads it; issuer and
\* audience are strings of characters.
base64Prefix == <<98, 97, 115, 101, 54, 52, 58>>    \* "base64:"

\* strings.HasPrefix and strings.TrimPrefix.
HasPrefix(s, prefix) ==
  Len(s) >= Len(prefix) /\ SubSeq(s, 1, Len(prefix)) = prefix

TrimPrefix(s, prefix) ==
  IF HasPrefix(s, prefix) THEN SubSeq(s, Len(prefix) + 1, Len(s)) ELSE s

\* The bytes strings.TrimSpace removes from an ASCII string:
\* \t \n \v \f \r and the space.
AsciiSpaceBytes == {9, 10, 11, 12, 13, 32}

\* strings.TrimSpace(key) == "" for a key of ASCII bytes.
KeyIsBlank(key) == \A i \in 1..Len(key) : key[i] \in AsciiSpaceBytes

\* base64.StdEncoding: the letter of a 6-bit value, and '=' the padding.
EncodeStd(n) ==
  IF n < 26 THEN 65 + n
  ELSE IF n < 52 THEN 97 + (n - 26)
  ELSE IF n < 62 THEN 48 + (n - 52)
  ELSE IF n = 62 THEN 43
  ELSE 47

StdPadding == 61

\* The 6-bit value of a letter of the alphabet, -1 for any other byte.
DecodeStd(c) ==
  IF c >= 65 /\ c <= 90 THEN c - 65
  ELSE IF c >= 97 /\ c <= 122 THEN c - 97 + 26
  ELSE IF c >= 48 /\ c <= 57 THEN c - 48 + 52
  ELSE IF c = 43 THEN 62
  ELSE IF c = 47 THEN 63
  ELSE -1

\* base64.StdEncoding.EncodeToString: three bytes to four letters, the last
\* group padded with '='.
RECURSIVE EncodeToString(_)
EncodeToString(src) ==
  IF src = <<>> THEN <<>>
  ELSE IF Len(src) = 1
    THEN <<EncodeStd(src[1] \div 4), EncodeStd((src[1] % 4) * 16),
           StdPadding, StdPadding>>
  ELSE IF Len(src) = 2
    THEN <<EncodeStd(src[1] \div 4),
           EncodeStd((src[1] % 4) * 16 + src[2] \div 16),
           EncodeStd((src[2] % 16) * 4), StdPadding>>
  ELSE <<EncodeStd(src[1] \div 4),
         EncodeStd((src[1] % 4) * 16 + src[2] \div 16),
         EncodeStd((src[2] % 16) * 4 + src[3] \div 64),
         EncodeStd(src[3] % 64)>>
       \o EncodeToString(SubSeq(src, 4, Len(src)))

ErrCorruptInput == InfraError("illegal base64 data")

\* The groups of four letters of a padded text: padding only ends the last
\* group, and the bits left over in a padded group are dropped.
RECURSIVE DecodeQuanta(_)
DecodeQuanta(s) ==
  IF s = <<>> THEN [bytes |-> <<>>, err |-> Nil]
  ELSE LET d1 == DecodeStd(s[1])
           d2 == DecodeStd(s[2])
           d3 == DecodeStd(s[3])
           d4 == DecodeStd(s[4])
           last == Len(s) = 4
           corrupt == [bytes |-> <<>>, err |-> ErrCorruptInput]
       IN IF d1 < 0 \/ d2 < 0 THEN corrupt
          ELSE IF s[3] = StdPadding
            THEN IF last /\ s[4] = StdPadding
                 THEN [bytes |-> <<d1 * 4 + d2 \div 16>>, err |-> Nil]
                 ELSE corrupt
          ELSE IF d3 < 0 THEN corrupt
          ELSE IF s[4] = StdPadding
            THEN IF last
                 THEN [bytes |-> <<d1 * 4 + d2 \div 16, (d2 % 16) * 16 + d3 \div 4>>,
                       err |-> Nil]
                 ELSE corrupt
          ELSE IF d4 < 0 THEN corrupt
          ELSE LET rest == DecodeQuanta(SubSeq(s, 5, Len(s)))
               IN IF rest.err # Nil THEN corrupt
                  ELSE [bytes |-> <<d1 * 4 + d2 \div 16,
                                    (d2 % 16) * 16 + d3 \div 4,
                                    (d3 % 4) * 64 + d4>> \o rest.bytes,
                        err |-> Nil]

\* base64.StdEncoding.DecodeString: \r and \n are skipped, the rest is
\* groups of four letters.
DecodeString(s) ==
  LET text == SelectSeq(s, LAMBDA c : c \notin {10, 13})
  IN IF Len(text) % 4 # 0 THEN [bytes |-> <<>>, err |-> ErrCorruptInput]
     ELSE DecodeQuanta(text)

\* A decodeKey that takes every key as raw bytes, marker or not.
decodeKeyRawOnly(key) == [bytes |-> key, err |-> Nil]

\* options.go 49-58: a key that starts with "base64:" is the base64 text of
\* the signing key, any other key is the signing key itself.
decodeKey(key) ==
  IF HasPrefix(key, base64Prefix)
  THEN DecodeString(TrimPrefix(key, base64Prefix))
  ELSE [bytes |-> key, err |-> Nil]

DecodeKey(key) == decodeKey(key)

minKeyBytes == 32
minLifetimeHours == 1
maxLifetimeHours == 168

\* A Validate that lets a signing key of any length pass.
JWTOptionsValidateAnyKeyLength(o) ==
  IF KeyIsBlank(o.Key) THEN InfraError("jwt: key must be provided")
  ELSE IF decodeKey(o.Key).err # Nil THEN InfraError("jwt: invalid key")
  ELSE IF TrimSpace(o.Issuer) = <<>> THEN InfraError("jwt: issuer must be provided")
  ELSE IF TrimSpace(o.Audience) = <<>> THEN InfraError("jwt: audience must be provided")
  ELSE IF o.AccessTokenLifetimeHours < minLifetimeHours
          \/ o.AccessTokenLifetimeHours > maxLifetimeHours
    THEN InfraError("jwt: access token lifetime must be between 1 and 168 hours")
  ELSE Nil

\* options.go 19-42, JWTOptions.Validate: the first check that fails.
JWTOptionsValidate(o) ==
  IF KeyIsBlank(o.Key) THEN InfraError("jwt: key must be provided")
  ELSE IF decodeKey(o.Key).err # Nil THEN InfraError("jwt: invalid key")
  ELSE IF Len(decodeKey(o.Key).bytes) < minKeyBytes
    THEN InfraError("jwt: key must be at least 32 bytes after decoding")
  ELSE IF TrimSpace(o.Issuer) = <<>> THEN InfraError("jwt: issuer must be provided")
  ELSE IF TrimSpace(o.Audience) = <<>> THEN InfraError("jwt: audience must be provided")
  ELSE IF o.AccessTokenLifetimeHours < minLifetimeHours
          \/ o.AccessTokenLifetimeHours > maxLifetimeHours
    THEN InfraError("jwt: access token lifetime must be between 1 and 168 hours")
  ELSE Nil

\* options.go 82-96: the generator, or the error that refused the options.
NewJWTTokenGenerator(options) ==
  LET err == JWTOptionsValidate(options)
      key == DecodeKey(options.Key)
  IN IF err # Nil THEN [generator |-> Nil, err |-> err]
     ELSE IF key.err # Nil THEN [generator |-> Nil, err |-> InfraError("decode key")]
     ELSE [generator |-> [options |-> options, signingKey |-> key.bytes],
           err |-> Nil]

\* fmt.Sprintf("%d", n) for n >= 0: the decimal digits of n.
RECURSIVE FormatInt(_)
FormatInt(n) ==
  LET digit == <<"0", "1", "2", "3", "4", "5", "6", "7", "8", "9">>[(n % 10) + 1]
  IN IF n < 10 THEN <<digit>> ELSE Append(FormatInt(n \div 10), digit)

\* Instants are milliseconds since the epoch; time.Hour in that unit, and
\* the instant as jwt.NewNumericDate writes it: whole seconds, the rest cut.
Hour == 3600000
NewNumericDate(t) == (t - (t % 1000)) \div 1000

\* An expiry that adds the lifetime to the clock without time.Hour.
expiresAtNoUnit(g, now) == now + g.options.AccessTokenLifetimeHours

\* options.go 105: now.Add(lifetime * time.Hour).
expiresAt(g, now) == now + g.options.AccessTokenLifetimeHours * Hour

\* options.go 110-117: the registered claims that come from the options,
\* the clock and uuid.NewString() (Subject is with the user's claims).
RegisteredClaims(g, now, jti) ==
  [iss |-> g.options.Issuer, aud |-> <<g.options.Audience>>,
   iat |-> NewNumericDate(now), exp |-> NewNumericDate(expiresAt(g, now)),
   jti |-> jti]

\* The claims of the signed token that depend on the user.
GenerateToken(user, signFails) ==
  IF user = Nil THEN [token |-> <<>>, err |-> InfraError("user must not be nil")]
  ELSE IF signFails THEN [token |-> <<>>, err |-> ErrSignToken]
  ELSE [token |-> [sub |-> FormatInt(user.ID), nameid |-> FormatInt(user.ID),
                   name |-> user.Username],
        err |-> Nil]

(***************************************************************************)
(* HTTP boundary (handlers.go, mapAppError).                               *)
(***************************************************************************)

StatusOK == 200
StatusBadRequest == 400
StatusUnauthorized == 401
StatusConflict == 409
StatusInternalServerError == 500

\* A faulty mapping that answers a conflict like a validation failure.
mapAppErrorConflictAsBadRequest(err) ==
  CASE err.type \in {"ValidationError", "ConflictError"} ->
         [status |-> StatusBadRequest, message |-> err.Message]
    [] err.type = "UnauthorizedError" -> [status |-> StatusUnauthorized, message |-> err.Message]
    [] OTHER -> [status |-> StatusInternalServerError, message |-> "Failed to process request."]

\* mapAppError: the status and message written for a service error.
mapAppError(err) ==
  CASE err.type = "ValidationError" -> [status |-> StatusBadRequest, message |-> err.Message]
    [] err.type = "ConflictError" -> [status |-> StatusConflict, message |-> err.Message]
    [] err.type = "UnauthorizedError" -> [status |-> StatusUnauthorized, message |-> err.Message]
    [] OTHER -> [status |-> StatusInternalServerError, message |-> "Failed to process request."]

\* Handlers.Register / Handlers.Login after the service returned: the
\* status and the JSON body written for the call c.
HandlerResponse(c) ==
  IF c.err # Nil
  THEN [status |-> mapAppError(c.err).status,
        body |-> [message |-> mapAppError(c.err).message]]
  ELSE [status |-> StatusOK,
        body |-> [token |-> c.result.Token, userId |-> c.result.UserID,
                  username |-> c.result.Username]]

\* The failure kinds of the older service's AuthResult (dtos.go) and the
\* status its controller writes for each (auth_controller.go).
AuthErrorTypeValidation == "validation"
AuthErrorTypeUnauthorized == "unauthorized"
AuthErrorTypeConflict == "conflict"
AuthErrorTypeUnknown == "unknown"

AuthErrorTypes ==
  {AuthErrorTypeValidation, AuthErrorTypeUnauthorized, AuthErrorTypeConflict,
   AuthErrorTypeUnknown}

mapAuthErrorToStatus(errorType) ==
  CASE errorType = AuthErrorTypeValidation -> StatusBadRequest
    [] errorType = AuthErrorTypeConflict -> StatusConflict
    [] errorType = AuthErrorTypeUnauthorized -> StatusUnauthorized
    [] OTHER -> StatusBadRequest

(***************************************************************************)
(* Bounds of the model and the inputs the calls draw from.                 *)
(***************************************************************************)

NumProcs == 2
MaxSalt == 3
MaxTokens == 4

\* The request goroutines that may run at the same time.
Procs == 1..NumProcs

\* The salts rand.Read may produce.
Salts == 1..MaxSalt

\* A random source that returns the same bytes every time.
RepeatedSalt(history) == {1}

\* rand.Read fills the salt with 64 random bytes: a salt that repeats an
\* earlier one has negligible probability, and the model leaves it out.
\* The salt a call of HashPassword draws after the outputs of history:
\* salts are only compared for equality, so the least one not drawn yet
\* stands for any of them.
FreshSalts(history) ==
  LET free == Salts \ {Base64Decode(history[i].salt) : i \in 1..Len(history)}
  IN {s \in free : \A t \in free : s <= t}

\* A generator of token ids that returns the same id every time.
RepeatedTokenID(tokens) == {1}

\* uuid.NewString(): a random (version 4) UUID for the ID claim. An id that
\* repeats an earlier one has negligible probability, and the model leaves
\* it out: the ids a token may get after the tokens signed so far.
NewTokenID(tokens) == (1..MaxTokens) \ {tokens[i].jti : i \in 1..Len(tokens)}

Bob == <<"b", "o", "b">>
PadBob == <<" ", "b", "o", "b", " ">>
UpBob == <<"B", "o", "b">>
Bo == <<"b", "o">>
Blank == <<" ", " ">>

EmailA == <<"a", "@", "x", ".", "y">>
EmailAVar == <<" ", "A", "@", "x", ".", "y">>
EmailB == <<"b", "@", "x", ".", "y">>

Passw0rd == <<"P", "a", "s", "s", "w", "0", "r", "d">>
Passw0rD == <<"P", "a", "s", "s", "w", "0", "r", "D">>

\* The commands of the one-at-a-time runs.
RegisterRequests ==
  [Username : {Bob, PadBob, UpBob, Bo}, Email : {EmailA, EmailAVar, EmailB},
   Password : {Passw0rd, Passw0rD}]

LoginRequests ==
  [Username : {Bob, PadBob, UpBob, Blank}, Password : {Passw0rd, Passw0rD, Blank}]

\* The commands of the interleaved runs: registrations that race for a
\* username or for an email, and logins of a known and of an unknown user.
RacingRegisterRequests ==
  {[Username |-> Bob, Email |-> EmailA, Password |-> Passw0rd],
   [Username |-> Bob, Email |-> EmailB, Password |-> Passw0rd],
   [Username |-> UpBob, Email |-> EmailAVar, Password |-> Passw0rd]}

RacingLoginRequests == [Username : {Bob}, Password : {Passw0rd, Passw0rD}]

(***************************************************************************)
(* State.                                                                  *)
(***************************************************************************)

VARIABLES
  users,     \* the rows of the users table, in insertion order
  call,      \* per request goroutine: the call in flight and its locals
  regs,      \* history: the registrations that returned success
  hashCalls, \* history: what HashPassword returned, call by call
  hasherCall, \* the latest call made to the hasher directly (hasher runs)
  issuedTokens, \* the tokens the generator has signed, in order (generator runs)
  vcmd,      \* the command handed to the validator (validator runs)
  vres,      \* what the validator returned for vcmd
  tokenGenerator, \* what NewJWTTokenGenerator returned to main, and for which options
  keyCalls,  \* history: the keys DecodeKey was called with, and what it returned
  userCall,  \* the arguments NewUser is called with directly, and what it returned
  legacyCall \* what the application/auth service returned for the command of call[1]

vars == <<users, call, regs, hashCalls, hasherCall, issuedTokens, vcmd, vres,
          tokenGenerator, keyCalls, userCall, legacyCall>>

\* A goroutine with no call: op is the operation, pc the next collaborator,
\* cancelled the state of the caller's context when the call started,
\* fault the collaborator set to fail during the call's latest step,
\* called the collaborators invoked so far, before / after the table at the
\* call and at the return.
Idle ==
  [op |-> "none", pc |-> "idle", cmd |-> Nil, cancelled |-> FALSE,
   fault |-> "none", trimmedUsername |-> <<>>,
   normalizedEmail |-> <<>>, user |-> Nil, result |-> Nil, err |-> Nil,
   called |-> <<>>, before |-> <<>>, after |-> <<>>]

NoCommand == [Username |-> <<>>, Email |-> <<>>, Password |-> <<>>]

\* The validator has not run yet.
NotRun == [type |-> "not run"]

\* config defaults (defaultJWTKey is "base64:" and the base64 text of 32
\* letters a), as main hands them to NewJWTTokenGenerator.
MySvelteApp == <<"m", "y", "s", "v", "e", "l", "t", "e", "a", "p", "p">>

defaultJWTLifetimeHours == 24

DefaultOptions ==
  [Key |-> base64Prefix \o EncodeToString(Rep(97, 32)),
   Issuer |-> MySvelteApp, Audience |-> MySvelteApp,
   AccessTokenLifetimeHours |-> defaultJWTLifetimeHours]

\* main.go 70-78: the generator main wires into the service; main stops
\* (log.Fatalf) when err is set.
WireGenerator(options) ==
  [options |-> options,
   generator |-> NewJWTTokenGenerator(options).generator,
   err |-> NewJWTTokenGenerator(options).err]

Wired == WireGenerator(DefaultOptions)

Init ==
  /\ users = <<>>
  /\ call = [p \in Procs |-> Idle]
  /\ regs = {}
  /\ hashCalls = <<>>
  /\ hasherCall = NotRun
  /\ issuedTokens = <<>>
  /\ vcmd = NoCommand
  /\ vres = NotRun
  /\ tokenGenerator = Wired
  /\ keyCalls = {}
  /\ userCall = NotRun
  /\ legacyCall = NotRun

\* A faulty return that hands back an empty AuthSuccess next to the error.
FailWithPayload(c, err, rows) ==
  [c EXCEPT !.pc = "done", !.err = err, !.after = rows,
            !.result = [Token |-> <<>>, UserID |-> 0, Username |-> <<>>]]

\* The call returns err (and no result); rows is the table at that moment.
Fail(c, err, rows) == [c EXCEPT !.pc = "done", !.err = err, !.after = rows]

\* A success payload that echoes the username as it was typed.
SucceedEchoingRequest(c, token, user, rows) ==
  [c EXCEPT !.pc = "done",
            !.result = [Token |-> token, UserID |-> user.ID, Username |-> c.cmd.Username],
            !.after = rows]

\* The call returns the success payload.
Succeed(c, token, user, rows) ==
  [c EXCEPT !.pc = "done",
            !.result = [Token |-> token, UserID |-> user.ID, Username |-> user.Username],
            !.after = rows]

\* A context that reports no cancellation, whatever its state.
ctxErrIgnored(cancelled) == Nil

\* ctx.Err(): the error of the caller's context when the call starts.
ctxErr(cancelled) == IF cancelled THEN ErrCtxCanceled ELSE Nil

\* A call may start on a free goroutine; in a one-at-a-time run only
\* when no other call is in flight or waiting to be answered.
CanStart(p, solo) ==
  /\ call[p].pc = "idle"
  /\ solo => \A q \in Procs : call[q].pc = "idle"

\* The model follows a registration only while a salt is left for it and
\* for the registrations already on their way to HashPassword.
SaltLeft ==
  Len(hashCalls) + Cardinality({q \in Procs : call[q].pc = "EmailExists"}) < MaxSalt

(***************************************************************************)
(* Service.Register, cut at its store operations.                          *)
(***************************************************************************)

\* A faulty variant that ignores the answer of UsernameExists.
RegisterUsernameUnchecked(c, rows, fault) ==
  LET trimmedUsername == TrimSpace(c.cmd.Username)
      normalizedEmail == ToLower(TrimSpace(c.cmd.Email))
      found == RepoUsernameExists(rows, trimmedUsername, fault = "UsernameExists")
      d == [c EXCEPT !.called = <<"UsernameExists">>,
                     !.trimmedUsername = trimmedUsername,
                     !.normalizedEmail = normalizedEmail]
  IN IF validateRegister(c.cmd) # Nil THEN Fail(c, validateRegister(c.cmd), rows)
     ELSE IF found.err # Nil THEN Fail(d, found.err, rows)
     ELSE [d EXCEPT !.pc = "EmailExists"]

\* A faulty variant that asks the store before it validates the command.
RegisterUsernameLookupFirst(c, rows, fault) ==
  LET trimmedUsername == TrimSpace(c.cmd.Username)
      normalizedEmail == ToLower(TrimSpace(c.cmd.Email))
      found == RepoUsernameExists(rows, trimmedUsername, fault = "UsernameExists")
      d == [c EXCEPT !.called = <<"UsernameExists">>,
                     !.trimmedUsername = trimmedUsername,
                     !.normalizedEmail = normalizedEmail]
  IN IF found.err = ErrDatabase THEN Fail(d, found.err, rows)
     ELSE IF validateRegister(c.cmd) # Nil THEN Fail(d, validateRegister(c.cmd), rows)
     ELSE IF found.err # Nil THEN Fail(d, found.err, rows)
     ELSE IF found.exists THEN Fail(d, ConflictError(MsgUsernameTaken), rows)
     ELSE [d EXCEPT !.pc = "EmailExists"]

\* service.go 40-58: ctx.Err, validateRegister, trim / normalise,
\* UsernameExists.
RegisterUsername(c, rows, fault) ==
  LET trimmedUsername == TrimSpace(c.cmd.Username)
      normalizedEmail == ToLower(TrimSpace(c.cmd.Email))
      found == RepoUsernameExists(rows, trimmedUsername, fault = "UsernameExists")
      d == [c EXCEPT !.called = <<"UsernameExists">>,
                     !.trimmedUsername = trimmedUsername,
                     !.normalizedEmail = normalizedEmail]
  IN IF validateRegister(c.cmd) # Nil THEN Fail(c, validateRegister(c.cmd), rows)
     ELSE IF found.err # Nil THEN Fail(d, found.err, rows)
     ELSE IF found.exists THEN Fail(d, ConflictError(MsgUsernameTaken), rows)
     ELSE [d EXCEPT !.pc = "EmailExists"]

RegisterCall(p, request, cancelled, fault, solo) ==
  /\ CanStart(p, solo)
  /\ SaltLeft
  /\ LET c == [Idle EXCEPT !.op = "Register", !.cmd = request,
                           !.cancelled = cancelled, !.fault = fault,
                           !.before = users]
         n == IF ctxErr(cancelled) # Nil THEN Fail(c, ctxErr(cancelled), users)
              ELSE RegisterUsername(c, users, fault)
     IN call' = [call EXCEPT ![p] = n]
  /\ UNCHANGED <<legacyCall, userCall, tokenGenerator, keyCalls, users, regs, hashCalls, hasherCall, issuedTokens, vcmd, vres>>

\* A faulty variant that hashes the password before it looks the e-mail up.
RegisterEmailHashFirst(c, rows, salt, fault) ==
  LET hashed == HashPassword(c.cmd.Password, salt, fault = "HashPassword")
      found == RepoEmailExists(rows, c.normalizedEmail, fault = "EmailExists")
      built == NewUser(c.trimmedUsername, c.normalizedEmail, hashed.hash, hashed.salt)
      d == [c EXCEPT !.called = Append(c.called, "HashPassword")]
      e == [d EXCEPT !.called = Append(d.called, "EmailExists")]
  IN IF hashed.err # Nil THEN Fail(d, hashed.err, rows)
     ELSE IF found.err # Nil THEN Fail(e, found.err, rows)
     ELSE IF found.exists THEN Fail(e, ConflictError(MsgEmailTaken), rows)
     ELSE IF built.err # Nil THEN Fail(e, built.err, rows)
     ELSE [e EXCEPT !.pc = "Add", !.user = built.user]

\* A faulty variant that looks the e-mail up as it was typed.
RegisterEmailAsTyped(c, rows, salt, fault) ==
  LET found == RepoEmailExists(rows, c.cmd.Email, fault = "EmailExists")
      hashed == HashPassword(c.cmd.Password, salt, fault = "HashPassword")
      built == NewUser(c.trimmedUsername, c.normalizedEmail, hashed.hash, hashed.salt)
      d == [c EXCEPT !.called = Append(c.called, "EmailExists")]
      e == [d EXCEPT !.called = Append(d.called, "HashPassword")]
  IN IF found.err # Nil THEN Fail(d, found.err, rows)
     ELSE IF found.exists THEN Fail(d, ConflictError(MsgEmailTaken), rows)
     ELSE IF hashed.err # Nil THEN Fail(e, hashed.err, rows)
     ELSE IF built.err # Nil THEN Fail(e, built.err, rows)
     ELSE [e EXCEPT !.pc = "Add", !.user = built.user]

\* service.go 60-76: EmailExists, HashPassword, NewUser.
RegisterEmail(c, rows, salt, fault) ==
  LET found == RepoEmailExists(rows, c.normalizedEmail, fault = "EmailExists")
      hashed == HashPassword(c.cmd.Password, salt, fault = "HashPassword")
      built == NewUser(c.trimmedUsername, c.normalizedEmail, hashed.hash, hashed.salt)
      d == [c EXCEPT !.called = Append(c.called, "EmailExists")]
      e == [d EXCEPT !.called = Append(d.called, "HashPassword")]
  IN IF found.err # Nil THEN Fail(d, found.err, rows)
     ELSE IF found.exists THEN Fail(d, ConflictError(MsgEmailTaken), rows)
     ELSE IF hashed.err # Nil THEN Fail(e, hashed.err, rows)
     ELSE IF built.err # Nil THEN Fail(e, built.err, rows)
     ELSE [e EXCEPT !.pc = "Add", !.user = built.user]

RegisterEmailStep(p, salt, fault) ==
  /\ call[p].op = "Register"
  /\ call[p].pc = "EmailExists"
  /\ salt \in FreshSalts(hashCalls)
  /\ LET n == RegisterEmail([call[p] EXCEPT !.fault = fault], users, salt, fault)
     IN /\ call' = [call EXCEPT ![p] = n]
        /\ hashCalls' =
             IF n.pc = "Add"
             THEN Append(hashCalls, [password |-> n.cmd.Password,
                                     hash |-> n.user.PasswordHash,
                                     salt |-> n.user.PasswordSalt])
             ELSE hashCalls
  /\ UNCHANGED <<legacyCall, userCall, tokenGenerator, keyCalls, users, regs, hasherCall, issuedTokens, vcmd, vres>>

\* service.go 78-91: Add, GenerateToken, the success payload.
RegisterAdd(c, rows, fault) ==
  LET added == RepoAdd(rows, c.user, fault = "Add")
      issued == GenerateToken(added.user, fault = "GenerateToken")
      d == [c EXCEPT !.called = Append(c.called, "Add")]
      e == [d EXCEPT !.called = Append(d.called, "GenerateToken"), !.user = added.user]
  IN IF added.err # Nil THEN Fail(d, added.err, added.rows)
     ELSE IF issued.err # Nil THEN Fail(e, issued.err, added.rows)
     ELSE Succeed(e, issued.token, added.user, added.rows)

RegisterAddStep(p, fault) ==
  /\ call[p].op = "Register"
  /\ call[p].pc = "Add"
  /\ LET n == RegisterAdd([call[p] EXCEPT !.fault = fault], users, fault)
     IN /\ call' = [call EXCEPT ![p] = n]
        /\ users' = n.after
        /\ regs' = IF n.err = Nil
                   THEN regs \cup {[Username |-> n.result.Username,
                                    Email |-> n.user.Email,
                                    Password |-> n.cmd.Password,
                                    UserID |-> n.result.UserID]}
                   ELSE regs
  /\ UNCHANGED <<legacyCall, userCall, tokenGenerator, keyCalls, hashCalls, hasherCall, issuedTokens, vcmd, vres>>

(***************************************************************************)
(* Service.Login: one store read, then local work.                         *)
(***************************************************************************)

\* A faulty variant that answers an unknown user with a conflict.
loginUnknownUserConflict(c, rows) == Fail(c, ConflictError(MsgUnauthorized), rows)

\* The outcome of a login once the lookup returned no user.
loginUnknownUser(c, rows) == Fail(c, UnauthorizedError(MsgUnauthorized), rows)

\* A faulty variant that tells the caller the password was the wrong half.
loginWrongPasswordLeak(c, rows) == Fail(c, UnauthorizedError("Incorrect password."), rows)

\* The outcome of a login once VerifyPassword returned false.
loginWrongPassword(c, rows) == Fail(c, UnauthorizedError(MsgUnauthorized), rows)

\* service.go 95-132.
Login(c, rows, fault) ==
  LET trimmedUsername == TrimSpace(c.cmd.Username)
      got == RepoGetByUsername(rows, trimmedUsername, fault = "GetByUsername")
      checked == VerifyPassword(c.cmd.Password, got.user.PasswordHash, got.user.PasswordSalt)
      issued == GenerateToken(got.user, fault = "GenerateToken")
      d == [c EXCEPT !.called = <<"GetByUsername">>, !.trimmedUsername = trimmedUsername]
      e == [d EXCEPT !.called = Append(d.called, "VerifyPassword"), !.user = got.user]
      f == [e EXCEPT !.called = Append(e.called, "GenerateToken")]
  IN IF validateLogin(c.cmd) # Nil THEN Fail(c, validateLogin(c.cmd), rows)
     ELSE IF got.err # Nil THEN Fail(d, got.err, rows)
     ELSE IF got.user = Nil THEN loginUnknownUser(d, rows)
     ELSE IF checked.err # Nil THEN Fail(e, checked.err, rows)
     ELSE IF ~checked.valid THEN loginWrongPassword(e, rows)
     ELSE IF issued.err # Nil THEN Fail(f, issued.err, rows)
     ELSE Succeed(f, issued.token, got.user, rows)

\* A login that, on success, hashes the password again and saves the user.
LoginCallRehashing(p, request, cancelled, fault, solo) ==
  /\ CanStart(p, solo)
  /\ LET c == [Idle EXCEPT !.op = "Login", !.cmd = request,
                           !.cancelled = cancelled, !.fault = fault,
                           !.before = users]
         n == IF ctxErr(cancelled) # Nil THEN Fail(c, ctxErr(cancelled), users)
              ELSE Login(c, users, fault)
         again == HashPassword(request.Password, MaxSalt, FALSE)
     IN /\ call' = [call EXCEPT ![p] = n]
        /\ users' = IF n.err # Nil THEN users
                    ELSE [i \in 1..Len(users) |->
                            IF users[i].ID = n.result.UserID
                            THEN [users[i] EXCEPT !.PasswordHash = again.hash,
                                                  !.PasswordSalt = again.salt]
                            ELSE users[i]]
  /\ UNCHANGED <<legacyCall, userCall, tokenGenerator, keyCalls, regs, hashCalls, hasherCall, issuedTokens, vcmd, vres>>

LoginCall(p, request, cancelled, fault, solo) ==
  /\ CanStart(p, solo)
  /\ LET c == [Idle EXCEPT !.op = "Login", !.cmd = request,
                           !.cancelled = cancelled, !.fault = fault,
                           !.before = users]
         n == IF ctxErr(cancelled) # Nil THEN Fail(c, ctxErr(cancelled), users)
              ELSE Login(c, users, fault)
     IN call' = [call EXCEPT ![p] = n]
  /\ UNCHANGED <<legacyCall, userCall, tokenGenerator, keyCalls, users, regs, hashCalls, hasherCall, issuedTokens, vcmd, vres>>

\* The handler has written the response; the goroutine is free again.
Return(p) ==
  /\ call[p].pc = "done"
  /\ call' = [call EXCEPT ![p] = Idle]
  /\ UNCHANGED <<legacyCall, userCall, tokenGenerator, keyCalls, users, regs, hashCalls, hasherCall, issuedTokens, vcmd, vres>>

(***************************************************************************)
(* The application/auth service (dtos.go): the same use cases, returning   *)
(* an AuthResult next to the error.                                        *)
(***************************************************************************)

\* AuthResult{}: the zero value returned next to an error.
AuthResultZero ==
  [Success |-> FALSE, Token |-> <<>>, UserID |-> 0, Username |-> <<>>,
   ErrorMessage |-> "", ErrorType |-> ""]

\* validationError.toAuthResult and the literals of lines 97-101, 109-113.
toAuthResult(message, kind) ==
  [AuthResultZero EXCEPT !.ErrorMessage = message, !.ErrorType = kind]

unauthorizedResult == toAuthResult(MsgUnauthorized, AuthErrorTypeUnauthorized)

\* The result of a success.
AuthResultSuccess(token, user) ==
  [AuthResultZero EXCEPT !.Success = TRUE, !.Token = token, !.UserID = user.ID,
                         !.Username = user.Username]

\* dtos.go 198-256: the message of the first failing case of the three
\* switch statements (every one of kind validation), "" when none fails.
validateRegisterRequest(request) ==
  LET username == TrimSpace(request.Username)
      email == TrimSpace(request.Email)
  IN CASE username = <<>> -> MsgUsernameRequired
       [] ByteLen(username) < minUsernameLength -> MsgUsernameShort
       [] ByteLen(username) > MaxUsernameLength -> MsgUsernameLong
       [] ~MatchUsername(username) -> MsgUsernamePattern
       [] OTHER ->
     CASE email = <<>> -> MsgEmailRequired
       [] ByteLen(email) > MaxEmailLength -> MsgEmailLong
       [] ContainsDotDot(email) -> MsgEmailInvalid
       [] ~MatchEmail(email) -> MsgEmailInvalid
       [] OTHER ->
     CASE TrimSpace(request.Password) = <<>> -> MsgPasswordRequired
       [] ByteLen(request.Password) < minPasswordLength -> MsgPasswordShort
       [] ByteLen(request.Password) > maxPasswordLength -> MsgPasswordLong
       [] ~passwordMeetsRequirements(request.Password) -> MsgPasswordWeak
       [] OTHER -> ""

\* dtos.go 258-267.
validateLoginRequest(request) ==
  IF TrimSpace(request.Username) = <<>> THEN MsgUsernameRequired
  ELSE IF TrimSpace(request.Password) = <<>> THEN MsgPasswordRequired
  ELSE ""

\* What a call of the service returns: the AuthResult, the error, and the
\* table it leaves.
LegacyReturn(result, err, rows) == [result |-> result, err |-> err, after |-> rows]

\* A Register that signs the token before it adds the user.
LegacyRegisterTokenFirst(request, rows, cancelled, salt, fault) ==
  LET trimmedUsername == TrimSpace(request.Username)
      normalizedEmail == ToLower(TrimSpace(request.Email))
      usernameExists == RepoUsernameExists(rows, trimmedUsername, fault = "UsernameExists")
      emailExists == RepoEmailExists(rows, normalizedEmail, fault = "EmailExists")
      hashed == HashPassword(request.Password, salt, fault = "HashPassword")
      built == NewUser(trimmedUsername, normalizedEmail, hashed.hash, hashed.salt)
      issued == GenerateToken([built.user EXCEPT !.ID = Len(rows) + 1],
                              fault = "GenerateToken")
      added == RepoAdd(rows, built.user, fault = "Add")
  IN IF ctxErr(cancelled) # Nil THEN LegacyReturn(AuthResultZero, ctxErr(cancelled), rows)
     ELSE IF validateRegisterRequest(request) # ""
       THEN LegacyReturn(toAuthResult(validateRegisterRequest(request),
                                      AuthErrorTypeValidation), Nil, rows)
     ELSE IF usernameExists.err # Nil THEN LegacyReturn(AuthResultZero, usernameExists.err, rows)
     ELSE IF usernameExists.exists
       THEN LegacyReturn(toAuthResult(MsgUsernameTaken, AuthErrorTypeConflict), Nil, rows)
     ELSE IF emailExists.err # Nil THEN LegacyReturn(AuthResultZero, emailExists.err, rows)
     ELSE IF emailExists.exists
       THEN LegacyReturn(toAuthResult(MsgEmailTaken, AuthErrorTypeConflict), Nil, rows)
     ELSE IF hashed.err # Nil THEN LegacyReturn(AuthResultZero, hashed.err, rows)
     ELSE IF built.err # Nil THEN LegacyReturn(AuthResultZero, built.err, rows)
     ELSE IF issued.err # Nil THEN LegacyReturn(AuthResultZero, issued.err, rows)
     ELSE IF added.err # Nil THEN LegacyReturn(AuthResultZero, added.err, added.rows)
     ELSE LegacyReturn(AuthResultSuccess(issued.token, added.user), Nil, added.rows)

\* dtos.go 80-141, Service.Register.
LegacyRegister(request, rows, cancelled, salt, fault) ==
  LET trimmedUsername == TrimSpace(request.Username)
      normalizedEmail == ToLower(TrimSpace(request.Email))
      usernameExists == RepoUsernameExists(rows, trimmedUsername, fault = "UsernameExists")
      emailExists == RepoEmailExists(rows, normalizedEmail, fault = "EmailExists")
      hashed == HashPassword(request.Password, salt, fault = "HashPassword")
      built == NewUser(trimmedUsername, normalizedEmail, hashed.hash, hashed.salt)
      added == RepoAdd(rows, built.user, fault = "Add")
      issued == GenerateToken(added.user, fault = "GenerateToken")
  IN IF ctxErr(cancelled) # Nil THEN LegacyReturn(AuthResultZero, ctxErr(cancelled), rows)
     ELSE IF validateRegisterRequest(request) # ""
       THEN LegacyReturn(toAuthResult(validateRegisterRequest(request),
                                      AuthErrorTypeValidation), Nil, rows)
     ELSE IF usernameExists.err # Nil THEN LegacyReturn(AuthResultZero, usernameExists.err, rows)
     ELSE IF usernameExists.exists
       THEN LegacyReturn(toAuthResult(MsgUsernameTaken, AuthErrorTypeConflict), Nil, rows)
     ELSE IF emailExists.err # Nil THEN LegacyReturn(AuthResultZero, emailExists.err, rows)
     ELSE IF emailExists.exists
       THEN LegacyReturn(toAuthResult(MsgEmailTaken, AuthErrorTypeConflict), Nil, rows)
     ELSE IF hashed.err # Nil THEN LegacyReturn(AuthResultZero, hashed.err, rows)
     ELSE IF built.err # Nil THEN LegacyReturn(AuthResultZero, built.err, rows)
     ELSE IF added.err # Nil THEN LegacyReturn(AuthResultZero, added.err, added.rows)
     ELSE IF issued.err # Nil THEN LegacyReturn(AuthResultZero, issued.err, added.rows)
     ELSE LegacyReturn(AuthResultSuccess(issued.token, added.user), Nil, added.rows)

\* dtos.go 144-182, Service.Login.
LegacyLogin(request, rows, cancelled, fault) ==
  LET trimmedUsername == TrimSpace(request.Username)
      got == RepoGetByUsername(rows, trimmedUsername, fault = "GetByUsername")
      checked == VerifyPassword(request.Password, got.user.PasswordHash,
                                got.user.PasswordSalt)
      issued == GenerateToken(got.user, fault = "GenerateToken")
  IN IF ctxErr(cancelled) # Nil THEN LegacyReturn(AuthResultZero, ctxErr(cancelled), rows)
     ELSE IF validateLoginRequest(request) # ""
       THEN LegacyReturn(toAuthResult(validateLoginRequest(request),
                                      AuthErrorTypeValidation), Nil, rows)
     ELSE IF got.err # Nil THEN LegacyReturn(AuthResultZero, got.err, rows)
     ELSE IF got.user = Nil THEN LegacyReturn(unauthorizedResult, Nil, rows)
     ELSE IF checked.err # Nil THEN LegacyReturn(AuthResultZero, checked.err, rows)
     ELSE IF ~checked.valid THEN LegacyReturn(unauthorizedResult, Nil, rows)
     ELSE IF issued.err # Nil THEN LegacyReturn(AuthResultZero, issued.err, rows)
     ELSE LegacyReturn(AuthResultSuccess(issued.token, got.user), Nil, rows)

\* service.go 40-92 and 95-132 run from the call to the return: the steps
\* of Register one after the other on the same table.
ServiceRegister(request, rows, cancelled, salt, fault) ==
  LET c == [Idle EXCEPT !.op = "Register", !.cmd = request,
                        !.cancelled = cancelled, !.fault = fault,
                        !.before = rows]
      first == IF ctxErr(cancelled) # Nil THEN Fail(c, ctxErr(cancelled), rows)
               ELSE RegisterUsername(c, rows, fault)
      second == IF first.pc = "EmailExists" THEN RegisterEmail(first, rows, salt, fault)
                ELSE first
  IN IF second.pc = "Add" THEN RegisterAdd(second, rows, fault) ELSE second

ServiceLogin(request, rows, cancelled, fault) ==
  LET c == [Idle EXCEPT !.op = "Login", !.cmd = request,
                        !.cancelled = cancelled, !.fault = fault,
                        !.before = rows]
  IN IF ctxErr(cancelled) # Nil THEN Fail(c, ctxErr(cancelled), rows)
     ELSE Login(c, rows, fault)

(***************************************************************************)
(* Specifications: calls one at a time (Spec), calls interleaved at their  *)
(* store operations (SpecConc).                                            *)
(***************************************************************************)

\* The collaborator failures a run may inject at the named operations.
Faults(injected, operations) == IF injected THEN {"none"} \cup operations ELSE {"none"}

Steps(procs, registers, logins, contexts, injected, solo) ==
  \E p \in procs :
    \/ \E request \in registers, cancelled \in contexts,
          fault \in Faults(injected, {"UsernameExists"}) :
         RegisterCall(p, request, cancelled, fault, solo)
    \/ \E salt \in Salts, fault \in Faults(injected, {"EmailExists", "HashPassword"}) :
         RegisterEmailStep(p, salt, fault)
    \/ \E fault \in Faults(injected, {"Add", "GenerateToken"}) : RegisterAddStep(p, fault)
    \/ \E request \in logins, cancelled \in contexts,
          fault \in Faults(injected, {"GetByUsername", "GenerateToken"}) :
         LoginCall(p, request, cancelled, fault, solo)
    \/ Return(p)

\* One goroutine, any context, any collaborator may fail.
Next == Steps({1}, RegisterRequests, LoginRequests, BOOLEAN, TRUE, TRUE)

Spec == Init /\ [][Next]_vars

\* Several goroutines with live contexts and working collaborators.
NextConc == Steps(Procs, RacingRegisterRequests, RacingLoginRequests, {FALSE}, FALSE, FALSE)

SpecConc == Init /\ [][NextConc]_vars

(***************************************************************************)
(* The same calls on a table that already holds a row, written by an       *)
(* earlier registration or altered from outside the service (SpecStored).  *)
(***************************************************************************)

\* A text that is not base64.
NotBase64 == <<"%">>

\* The row of bob as Register stored it.
BobRow ==
  LET hashed == HashPassword(Passw0rd, 1, FALSE)
      built == NewUser(Bob, EmailA, hashed.hash, hashed.salt)
  IN [built.user EXCEPT !.ID = 1]

\* The tables a call may find: empty, bob's row, bob's row with a salt or
\* a hash that does not decode.
StoredTables ==
  {<<>>, <<BobRow>>, <<[BobRow EXCEPT !.PasswordSalt = NotBase64]>>,
   <<[BobRow EXCEPT !.PasswordHash = NotBase64]>>}

InitStored ==
  /\ users \in StoredTables
  /\ call = [p \in Procs |-> Idle]
  /\ regs = {}
  /\ hashCalls = IF users = <<>> THEN <<>>
                 ELSE <<[password |-> Passw0rd, hash |-> BobRow.PasswordHash,
                         salt |-> BobRow.PasswordSalt]>>
  /\ hasherCall = NotRun
  /\ issuedTokens = <<>>
  /\ vcmd = NoCommand
  /\ vres = NotRun
  /\ tokenGenerator = Wired
  /\ keyCalls = {}
  /\ userCall = NotRun
  /\ legacyCall = NotRun

SpecStored == InitStored /\ [][Next]_vars

(***************************************************************************)
(* The validator on its own: every command of ValidatorCommands is handed  *)
(* to validateRegister once (SpecValidate).                                *)
(***************************************************************************)

EAcute == "e_acute"

ValidatorUsernames ==
  {<<>>, Blank, Bo, Bob, PadBob, <<"b", "-", "b">>,
   Rep("a", MaxUsernameLength), Rep("a", MaxUsernameLength + 1),
   <<EAcute, EAcute>>, <<"b", EAcute>>, Rep(EAcute, 33)}

AtXY == <<"@", "x", ".", "y">>

ValidatorEmails ==
  {<<>>, EmailA, EmailAVar, <<"a", ".", ".", "b">> \o AtXY, <<"a", "@">> \o AtXY,
   <<"a", "@", "x">>, Rep("a", MaxEmailLength - 4) \o AtXY,
   Rep("a", MaxEmailLength - 3) \o AtXY, Rep(EAcute, 160) \o AtXY}

ValidatorPasswords ==
  {<<>>, Blank, <<"P", "a", "s", "s", "w", "0", "r">>, Passw0rd,
   <<"p", "a", "s", "s", "w", "o", "r", "d">>,
   Rep("A", maxPasswordLength + 1), Rep("A", maxPasswordLength - 2) \o <<"a", "1">>,
   <<"P", "a", "0", EAcute, EAcute, EAcute, EAcute>>,
   Rep(EAcute, 256) \o <<"A", "1">>}

ValidatorCommands ==
  [Username : ValidatorUsernames, Email : ValidatorEmails, Password : ValidatorPasswords]

InitValidate ==
  /\ users = <<>>
  /\ call = [p \in Procs |-> Idle]
  /\ regs = {}
  /\ hashCalls = <<>>
  /\ hasherCall = NotRun
  /\ issuedTokens = <<>>
  /\ vcmd \in ValidatorCommands
  /\ vres = NotRun
  /\ tokenGenerator = Wired
  /\ keyCalls = {}
  /\ userCall = NotRun
  /\ legacyCall = NotRun

Validate ==
  /\ vres = NotRun
  /\ vres' = validateRegister(vcmd)
  /\ UNCHANGED <<legacyCall, userCall, tokenGenerator, keyCalls, users, call, regs, hashCalls, hasherCall, issuedTokens, vcmd>>

NextValidate == Validate

SpecValidate == InitValidate /\ [][NextValidate]_vars

(***************************************************************************)
(* The hasher on its own: HashPassword and VerifyPassword called directly  *)
(* with any password, VerifyPassword against what HashPassword returned    *)
(* and against stored texts that do not decode (SpecHasher).               *)
(***************************************************************************)

\* The passwords handed to the hasher: empty, blank, and two that differ
\* in one letter.
HasherPasswords == {<<>>, Blank, Passw0rd, Passw0rD}

\* The (hash, salt) pairs VerifyPassword may be given: those HashPassword
\* returned, and those with a hash or salt that is empty or not base64.
StoredPairs(history) ==
  LET returned == {[hash |-> history[i].hash, salt |-> history[i].salt] :
                     i \in 1..Len(history)}
  IN returned
     \cup {[pair EXCEPT !.hash = NotBase64] : pair \in returned}
     \cup {[pair EXCEPT !.salt = NotBase64] : pair \in returned}
     \cup {[pair EXCEPT !.salt = <<>>] : pair \in returned}

HashCall(password, salt, randFails) ==
  /\ Len(hashCalls) < MaxSalt
  /\ salt \in FreshSalts(hashCalls)
  /\ LET out == HashPassword(password, salt, randFails)
     IN /\ hasherCall' = [op |-> "HashPassword", password |-> password,
                          hash |-> out.hash, salt |-> out.salt,
                          valid |-> FALSE, err |-> out.err]
        /\ hashCalls' = IF out.err = Nil
                        THEN Append(hashCalls, [password |-> password,
                                                hash |-> out.hash, salt |-> out.salt])
                        ELSE hashCalls
  /\ UNCHANGED <<legacyCall, userCall, tokenGenerator, keyCalls, users, call, regs, issuedTokens, vcmd, vres>>

VerifyCall(password, stored) ==
  /\ stored \in StoredPairs(hashCalls)
  /\ LET out == VerifyPassword(password, stored.hash, stored.salt)
     IN hasherCall' = [op |-> "VerifyPassword", password |-> password,
                       hash |-> stored.hash, salt |-> stored.salt,
                       valid |-> out.valid, err |-> out.err]
  /\ UNCHANGED <<legacyCall, userCall, tokenGenerator, keyCalls, users, call, regs, hashCalls, issuedTokens, vcmd, vres>>

NextHasher ==
  \/ \E password \in HasherPasswords, salt \in Salts, randFails \in BOOLEAN :
       HashCall(password, salt, randFails)
  \/ \E password \in HasherPasswords, stored \in StoredPairs(hashCalls) :
       VerifyCall(password, stored)

SpecHasher == Init /\ [][NextHasher]_vars

(***************************************************************************)
(* The token generator on its own: tokens signed one after the other for   *)
(* the users Register and Login hand it (SpecTokens).                      *)
(***************************************************************************)

\* The users tokens are signed for: bob, and Bob with the next id.
TokenUsers ==
  {BobRow, [BobRow EXCEPT !.ID = 2, !.Username = UpBob, !.Email = EmailB]}

\* The instants time.Now() returns: on a second, and between two seconds.
Clock == {0, 1500}

\* GenerateToken signs a token for user at instant now: the claims made
\* from the user, the options, the clock and the ID claim (user and now are
\* kept next to the claims to tell what the token was signed for).
IssueToken(user, now, jti, signFails) ==
  /\ Len(issuedTokens) < MaxTokens
  /\ tokenGenerator # NotRun
  /\ tokenGenerator.err = Nil
  /\ jti \in NewTokenID(issuedTokens)
  /\ LET out == GenerateToken(user, signFails)
         registered == RegisteredClaims(tokenGenerator.generator, now, jti)
     IN issuedTokens' =
          IF out.err = Nil
          THEN Append(issuedTokens,
                      [sub |-> out.token.sub, nameid |-> out.token.nameid,
                       name |-> out.token.name,
                       iss |-> registered.iss, aud |-> registered.aud,
                       iat |-> registered.iat, exp |-> registered.exp,
                       jti |-> registered.jti, user |-> user, now |-> now])
          ELSE issuedTokens
  /\ UNCHANGED <<legacyCall, userCall, tokenGenerator, keyCalls, users, call, regs, hashCalls, hasherCall, vcmd, vres>>

NextTokens ==
  \E user \in TokenUsers, now \in Clock, jti \in 1..MaxTokens, signFails \in BOOLEAN :
    IssueToken(user, now, jti, signFails)

SpecTokens == Init /\ [][NextTokens]_vars

(***************************************************************************)
(* The generator from its construction: main hands NewJWTTokenGenerator    *)
(* any options, and tokens are signed with the generator it returns        *)
(* (SpecIssuer).                                                           *)
(***************************************************************************)

\* Keys: none, 32 spaces, raw keys of 31 and 32 bytes, the base64 forms of
\* both, a base64 form that does not decode, and raw keys that themselves
\* start with the marker (their rest decodes to 24 and to 33 bytes).
OptionKeys ==
  {<<>>, Rep(32, 32), Rep(97, 31), Rep(97, 32),
   base64Prefix \o EncodeToString(Rep(97, 31)),
   base64Prefix \o EncodeToString(Rep(97, 32)),
   base64Prefix \o <<37>>,
   base64Prefix \o Rep(97, 32),
   base64Prefix \o Rep(97, 44)}

OptionNames == {<<>>, Blank, MySvelteApp}

OptionLifetimes == {0, 1, 24, 168, 169}

JWTOptionsInputs ==
  [Key : OptionKeys, Issuer : OptionNames, Audience : OptionNames,
   AccessTokenLifetimeHours : OptionLifetimes]

InitIssuer ==
  /\ users = <<>>
  /\ call = [p \in Procs |-> Idle]
  /\ regs = {}
  /\ hashCalls = <<>>
  /\ hasherCall = NotRun
  /\ issuedTokens = <<>>
  /\ vcmd = NoCommand
  /\ vres = NotRun
  /\ tokenGenerator = NotRun
  /\ keyCalls = {}
  /\ userCall = NotRun
  /\ legacyCall = NotRun

\* main.go 70-78: main constructs the generator, once.
NewGenerator(options) ==
  /\ tokenGenerator = NotRun
  /\ tokenGenerator' = WireGenerator(options)
  /\ UNCHANGED <<legacyCall, userCall, users, call, regs, hashCalls, hasherCall, issuedTokens, vcmd, vres,
                 keyCalls>>

\* The ID claims are handed out in order here.
NextIssuer ==
  \/ \E options \in JWTOptionsInputs : NewGenerator(options)
  \/ \E user \in TokenUsers, now \in Clock, signFails \in BOOLEAN :
       IssueToken(user, now, Len(issuedTokens) + 1, signFails)

SpecIssuer == InitIssuer /\ [][NextIssuer]_vars

(***************************************************************************)
(* DecodeKey on its own: called with raw keys and with their marked        *)
(* base64 forms (SpecKeys).                                                *)
(***************************************************************************)

\* Signing keys: empty, short, 32 letters, bytes that are no text, and keys
\* that start with the letters of the marker.
RawKeys ==
  {<<>>, <<97>>, <<0, 255, 16>>, Rep(97, 32),
   base64Prefix, base64Prefix \o Rep(97, 4)}

\* What the configuration may hold: a key raw, or the marker and its base64
\* text.
KeyTexts ==
  RawKeys \cup {base64Prefix \o EncodeToString(k) : k \in RawKeys}

DecodeKeyCall(key) ==
  /\ keyCalls' = keyCalls \cup {[key |-> key, bytes |-> DecodeKey(key).bytes,
                                err |-> DecodeKey(key).err]}
  /\ UNCHANGED <<legacyCall, userCall, users, call, regs, hashCalls, hasherCall, issuedTokens, vcmd, vres,
                 tokenGenerator>>

NextKeys == \E key \in KeyTexts : DecodeKeyCall(key)

SpecKeys == Init /\ [][NextKeys]_vars

(***************************************************************************)
(* NewUser on its own: called with any four texts, empty and blank ones    *)
(* included (SpecNewUser).                                                 *)
(***************************************************************************)

NewUserUsernames == {<<>>, Blank, Bob, PadBob, Rep("a", MaxUsernameLength + 1)}

NewUserEmails == {<<>>, Blank, EmailA, EmailAVar}

\* A hash or salt: none, a blank, and one the hasher returned.
NewUserSecrets == {<<>>, Blank, Base64Encode(HMAC(1, Passw0rd))}

InitNewUser ==
  /\ users = <<>>
  /\ call = [p \in Procs |-> Idle]
  /\ regs = {}
  /\ hashCalls = <<>>
  /\ hasherCall = NotRun
  /\ issuedTokens = <<>>
  /\ vcmd = NoCommand
  /\ vres = NotRun
  /\ tokenGenerator = Wired
  /\ keyCalls = {}
  /\ userCall \in [username : NewUserUsernames, email : NewUserEmails,
                   passwordHash : NewUserSecrets, passwordSalt : NewUserSecrets,
                   out : {NotRun}]
  /\ legacyCall = NotRun

NewUserCall ==
  /\ userCall.out = NotRun
  /\ userCall' = [userCall EXCEPT !.out = NewUser(userCall.username, userCall.email,
                                                   userCall.passwordHash,
                                                   userCall.passwordSalt)]
  /\ UNCHANGED <<legacyCall, users, call, regs, hashCalls, hasherCall, issuedTokens, vcmd, vres,
                 tokenGenerator, keyCalls>>

NextNewUser == NewUserCall

SpecNewUser == InitNewUser /\ [][NextNewUser]_vars

(***************************************************************************)
(* The two services side by side: each command is given to both, on the    *)
(* same table, with the same context, the same salt from the random source *)
(* and the same collaborator failing (SpecTwin).                           *)
(***************************************************************************)

\* The requests of Register, and one whose password has 7 characters in
\* 11 bytes.
TwinRegisterRequests ==
  RegisterRequests
  \cup {[Username |-> Bob, Email |-> EmailA,
         Password |-> <<"P", "a", "0", EAcute, EAcute, EAcute, EAcute>>]}

RegisterFaults ==
  {"none", "UsernameExists", "EmailExists", "HashPassword", "Add", "GenerateToken"}

LoginFaults == {"none", "GetByUsername", "GenerateToken"}

InitTwin ==
  /\ users \in StoredTables
  /\ call = [p \in Procs |-> Idle]
  /\ regs = {}
  /\ hashCalls = IF users = <<>> THEN <<>>
                 ELSE <<[password |-> Passw0rd, hash |-> BobRow.PasswordHash,
                         salt |-> BobRow.PasswordSalt]>>
  /\ hasherCall = NotRun
  /\ issuedTokens = <<>>
  /\ vcmd = NoCommand
  /\ vres = NotRun
  /\ tokenGenerator = Wired
  /\ keyCalls = {}
  /\ userCall = NotRun
  /\ legacyCall = NotRun

TwinRegister(request, cancelled, salt, fault) ==
  /\ call[1].pc = "idle"
  /\ Len(hashCalls) < MaxSalt
  /\ salt \in FreshSalts(hashCalls)
  /\ LET modern == ServiceRegister(request, users, cancelled, salt, fault)
         legacy == LegacyRegister(request, users, cancelled, salt, fault)
     IN /\ call' = [call EXCEPT ![1] = modern]
        /\ legacyCall' = legacy
        /\ users' = modern.after
        /\ hashCalls' =
             IF modern.user # Nil
             THEN Append(hashCalls, [password |-> request.Password,
                                     hash |-> modern.user.PasswordHash,
                                     salt |-> modern.user.PasswordSalt])
             ELSE hashCalls
  /\ UNCHANGED <<regs, hasherCall, issuedTokens, vcmd, vres, tokenGenerator, keyCalls,
                 userCall>>

TwinLogin(request, cancelled, fault) ==
  /\ call[1].pc = "idle"
  /\ call' = [call EXCEPT ![1] = ServiceLogin(request, users, cancelled, fault)]
  /\ legacyCall' = LegacyLogin(request, users, cancelled, fault)
  /\ UNCHANGED <<users, regs, hashCalls, hasherCall, issuedTokens, vcmd, vres,
                 tokenGenerator, keyCalls, userCall>>

\* Both handlers have written their responses.
TwinReturn ==
  /\ call[1].pc = "done"
  /\ call' = [call EXCEPT ![1] = Idle]
  /\ legacyCall' = NotRun
  /\ UNCHANGED <<users, regs, hashCalls, hasherCall, issuedTokens, vcmd, vres,
                 tokenGenerator, keyCalls, userCall>>

NextTwin ==
  \/ \E request \in TwinRegisterRequests, cancelled \in BOOLEAN, salt \in Salts,
        fault \in RegisterFaults :
       TwinRegister(request, cancelled, salt, fault)
  \/ \E request \in LoginRequests, cancelled \in BOOLEAN, fault \in LoginFaults :
       TwinLogin(request, cancelled, fault)
  \/ TwinReturn

SpecTwin == InitTwin /\ [][NextTwin]_vars

(***************************************************************************)
(* Properties.                                                             *)
(***************************************************************************)

\* The same letter, whatever its case.
FoldChar(c) ==
  CASE c = "a" -> "A"
    [] c = "b" -> "B"
    [] c = "d" -> "D"
    [] c = "p" -> "P"
    [] c = "e_acute" -> "E_acute"
    [] OTHER -> c

\* Two texts are equal when compared case-insensitively.
EqualFold(s, t) ==
  Len(s) = Len(t) /\ \A i \in 1..Len(s) : FoldChar(s[i]) = FoldChar(t[i])

\* The calls that have returned and wait for their response to be written.
Returned(p, op) == call[p].pc = "done" /\ call[p].op = op

\* The failures the environment injects: a cancelled context, the database,
\* the random source, the signer.
Injected == {ErrCtxCanceled, ErrDatabase, ErrGenerateSalt, ErrSignToken}

\* rows holds a user with that username / that e-mail.
HasUsername(rows, username) == \E i \in 1..Len(rows) : rows[i].Username = username
HasEmail(rows, email) == \E i \in 1..Len(rows) : rows[i].Email = email

\* C1: after any sequence of Register and Login calls run one at a time on
\* an initially empty store, no two stored users have the same username
\* (case-sensitively) and no two have the same e-mail (case-insensitively).
C1_UniqueUsers ==
  \A i, j \in 1..Len(users) :
    i # j => /\ users[i].Username # users[j].Username
             /\ ~EqualFold(users[i].Email, users[j].Email)

\* Two users are stored whose usernames differ by case only, the second
\* registration having just returned success.
C1_Witness ==
  /\ Len(users) = 2
  /\ EqualFold(users[1].Username, users[2].Username)
  /\ Returned(1, "Register")
  /\ call[1].err = Nil
  /\ call[1].result.UserID = 2

\* C2: under every interleaving of concurrent Register calls, with the
\* table's unique indexes enforced at Add, the store never holds two users
\* with the same username or the same normalised e-mail, and at most one
\* registration per username and per e-mail returns success.
C2_ConcurrentUnique ==
  /\ \A i, j \in 1..Len(users) :
       i # j => /\ users[i].Username # users[j].Username
                /\ ToLower(TrimSpace(users[i].Email)) # ToLower(TrimSpace(users[j].Email))
  /\ \A r, t \in regs :
       r # t => r.Username # t.Username /\ r.Email # t.Email

\* Two registrations for one username both passed the pre-checks; one was
\* stored and returned success, the other was refused by the index.
C2_Witness ==
  \E p, q \in Procs :
    /\ Returned(p, "Register") /\ call[p].err = Nil
    /\ Returned(q, "Register") /\ call[q].err = ErrUniqueUsername
    /\ call[p].trimmedUsername = call[q].trimmedUsername

\* C3: when two concurrent Register calls pass the pre-checks and the store
\* refuses the later Add with a uniqueness violation, the losing call
\* reaches the client as Conflict (HTTP 409).
C3_RaceLoserGetsConflict ==
  \A p \in Procs :
    (Returned(p, "Register") /\ call[p].err \in {ErrUniqueUsername, ErrUniqueEmail})
      => mapAppError(call[p].err).status = StatusConflict

\* C4: a successful Register followed later by a Login with the same
\* username and password returns success with the user id and username
\* that Register returned (the Login's own collaborators not failing).
C4_RegisterThenLogin ==
  \A p \in Procs : \A r \in regs :
    ( /\ Returned(p, "Login")
      /\ TrimSpace(call[p].cmd.Username) = r.Username
      /\ call[p].cmd.Password = r.Password
      /\ call[p].err \notin Injected )
    => /\ call[p].err = Nil
       /\ call[p].result.UserID = r.UserID
       /\ call[p].result.Username = r.Username

\* A second user registered after the first, and the first, typing the name
\* with surrounding blanks, then logged in.
C4_Witness ==
  /\ Len(users) = 2
  /\ Returned(1, "Login")
  /\ call[1].cmd.Username = PadBob
  /\ call[1].err = Nil
  /\ call[1].result.UserID = 1

\* C5: whenever Register returns a failure of any kind, the store is the
\* same after the call as before it.
C5_FailureLeavesStore ==
  \A p \in Procs :
    (Returned(p, "Register") /\ call[p].err # Nil) => call[p].after = call[p].before

\* C6: a valid Register whose trimmed username is stored returns Conflict
\* with the username message, also when the e-mail is stored too, and
\* adds no user (the lookup itself not failing).
C6_UsernameConflict ==
  \A p \in Procs :
    ( /\ Returned(p, "Register")
      /\ validateRegister(call[p].cmd) = Nil
      /\ HasUsername(call[p].before, TrimSpace(call[p].cmd.Username))
      /\ call[p].err \notin Injected )
    => /\ call[p].err = ConflictError(MsgUsernameTaken)
       /\ call[p].after = call[p].before
       /\ users = call[p].before

\* The username is stored and so is the e-mail: the username is reported.
C6_Witness ==
  /\ Returned(1, "Register")
  /\ HasUsername(call[1].before, TrimSpace(call[1].cmd.Username))
  /\ HasEmail(call[1].before, ToLower(TrimSpace(call[1].cmd.Email)))
  /\ call[1].err = ConflictError(MsgUsernameTaken)

\* C7: a valid Register with an unused username whose e-mail, trimmed and
\* lower-cased, is stored returns Conflict with the e-mail message and adds
\* no user (the lookups themselves not failing).
C7_EmailConflict ==
  \A p \in Procs :
    ( /\ Returned(p, "Register")
      /\ validateRegister(call[p].cmd) = Nil
      /\ ~HasUsername(call[p].before, TrimSpace(call[p].cmd.Username))
      /\ HasEmail(call[p].before, ToLower(TrimSpace(call[p].cmd.Email)))
      /\ call[p].err \notin Injected )
    => /\ call[p].err = ConflictError(MsgEmailTaken)
       /\ call[p].after = call[p].before
       /\ users = call[p].before

\* The e-mail typed differs from the stored one by case and a blank.
C7_Witness ==
  /\ Returned(1, "Register")
  /\ call[1].cmd.Email = EmailAVar
  /\ ~HasUsername(call[1].before, TrimSpace(call[1].cmd.Username))
  /\ HasEmail(call[1].before, EmailA)
  /\ call[1].err = ConflictError(MsgEmailTaken)

\* The login found no user / found the user and the password did not verify.
UnknownUser(p) ==
  /\ Returned(p, "Login")
  /\ call[p].called = <<"GetByUsername">>
  /\ call[p].err \notin Injected
WrongPassword(p) ==
  /\ Returned(p, "Login")
  /\ call[p].called = <<"GetByUsername", "VerifyPassword">>

\* C8: a Login that fails for an unknown username and a Login that fails
\* for a wrong password have the same kind, Unauthorized, and the same
\* message, in the service's error and in the HTTP response.
C8_LoginFailuresAlike ==
  \A p, q \in Procs :
    (UnknownUser(p) /\ WrongPassword(q))
    => /\ call[p].err = call[q].err
       /\ call[p].err.type = "UnauthorizedError"
       /\ mapAppError(call[p].err) = mapAppError(call[q].err)

\* One login of an unknown user and one with a wrong password have both
\* returned.
C8_Witness == \E p, q \in Procs : UnknownUser(p) /\ WrongPassword(q)

\* C9: whenever Register or Login returns a Validation failure, the call
\* has invoked no store operation and no hashing, and the store is as it
\* was.
C9_ValidationTouchesNothing ==
  \A p \in Procs :
    (call[p].pc = "done" /\ call[p].err.type = "ValidationError")
    => /\ call[p].called = <<>>
       /\ call[p].after = call[p].before
       /\ users = call[p].before

\* A registration with a too short username was refused while a user is
\* stored.
C9_Witness ==
  /\ Returned(1, "Register")
  /\ call[1].err = ValidationError(MsgUsernameShort)
  /\ Len(users) = 1

\* The twelve checks of registration validation in their order, lengths
\* counted in characters: <<check fails, message>>.
ValidationChecks(cmd) ==
  LET username == TrimSpace(cmd.Username)
      email == TrimSpace(cmd.Email)
      password == cmd.Password
  IN << <<username = <<>>, MsgUsernameRequired>>,
        <<Len(username) < minUsernameLength, MsgUsernameShort>>,
        <<Len(username) > MaxUsernameLength, MsgUsernameLong>>,
        <<~MatchUsername(username), MsgUsernamePattern>>,
        <<email = <<>>, MsgEmailRequired>>,
        <<Len(email) > MaxEmailLength, MsgEmailLong>>,
        <<ContainsDotDot(email), MsgEmailInvalid>>,
        <<~MatchEmail(email), MsgEmailInvalid>>,
        <<TrimSpace(password) = <<>>, MsgPasswordRequired>>,
        <<Len(password) < minPasswordLength, MsgPasswordShort>>,
        <<Len(password) > maxPasswordLength, MsgPasswordLong>>,
        <<~passwordMeetsRequirements(password), MsgPasswordWeak>> >>

\* The message of the first failing check, or no failure.
FirstFailure(cmd) ==
  LET checks == ValidationChecks(cmd)
      failing == {i \in 1..Len(checks) : checks[i][1]}
  IN IF failing = {} THEN Nil
     ELSE ValidationError(checks[CHOOSE i \in failing : \A j \in failing : i <= j][2])

\* C10: for every command, registration validation returns the message of
\* the first failing check in the fixed order, and no failure exactly when
\* all twelve checks pass.
C10_FirstFailingCheck == vres # NotRun => vres = FirstFailure(vcmd)

\* C11: a Register or Login called with a context that is already
\* cancelled returns an error at once: no store operation, no hashing, no
\* token issuance, no result, and the store is as it was.
C11_CancelledContext ==
  \A p \in Procs :
    (call[p].pc = "done" /\ call[p].cancelled)
    => /\ call[p].err = ErrCtxCanceled
       /\ call[p].result = Nil
       /\ call[p].called = <<>>
       /\ call[p].after = call[p].before
       /\ users = call[p].before

\* A valid registration of a new user was called with a cancelled context
\* while another user was stored; a login of a stored user likewise.
C11_Witness ==
  /\ call[1].pc = "done"
  /\ call[1].cancelled
  /\ Len(users) = 1
  /\ \/ /\ call[1].op = "Register"
        /\ validateRegister(call[1].cmd) = Nil
        /\ ~HasUsername(users, TrimSpace(call[1].cmd.Username))
        /\ ~HasEmail(users, ToLower(TrimSpace(call[1].cmd.Email)))
     \/ /\ call[1].op = "Login"
        /\ HasUsername(users, TrimSpace(call[1].cmd.Username))

\* The error the environment makes a collaborator return.
FaultError(fault) ==
  CASE fault \in {"UsernameExists", "EmailExists", "Add", "GetByUsername"} -> ErrDatabase
    [] fault = "HashPassword" -> ErrGenerateSalt
    [] fault = "GenerateToken" -> ErrSignToken

\* The collaborator set to fail was invoked, as the last one of the call.
CollaboratorFailed(p) ==
  /\ call[p].pc = "done"
  /\ call[p].fault # "none"
  /\ call[p].called # <<>>
  /\ call[p].called[Len(call[p].called)] = call[p].fault

\* The login reached VerifyPassword with a stored salt or hash that does
\* not decode.
StoredUndecodable(p) ==
  /\ Returned(p, "Login")
  /\ call[p].called = <<"GetByUsername", "VerifyPassword">>
  /\ \/ ~IsBase64(call[p].user.PasswordSalt)
     \/ ~IsBase64(call[p].user.PasswordHash)

\* C12: an error returned by a collaborator during Register or Login (a
\* store operation, the hasher -- a decode error on a stored salt or hash
\* included -- or the token generator) reaches the caller as that error,
\* which is none of Validation, Conflict, Unauthorized, with no result, and
\* the HTTP layer answers it with a 500-class status.
C12_CollaboratorErrorPropagates ==
  \A p \in Procs :
    /\ CollaboratorFailed(p) => call[p].err = FaultError(call[p].fault)
    /\ StoredUndecodable(p) => call[p].err \in {ErrDecodeSalt, ErrDecodeHash}
    /\ (CollaboratorFailed(p) \/ StoredUndecodable(p))
       => /\ call[p].err.type = "error"
          /\ call[p].result = Nil
          /\ mapAppError(call[p].err).status \in 500..599

\* A login found bob's row and the stored salt did not decode.
C12_Witness ==
  /\ StoredUndecodable(1)
  /\ call[1].err = ErrDecodeSalt
  /\ mapAppError(call[1].err).status = StatusInternalServerError

\* The three typed failure kinds.
TypedKinds == {"ValidationError", "ConflictError", "UnauthorizedError"}

\* The outcome is a success: a payload with token, user id and username,
\* and no error.
IsSuccess(c) ==
  /\ c.err = Nil
  /\ c.result # Nil
  /\ c.result.Token # <<>>
  /\ c.result.UserID >= 1
  /\ c.result.Username # <<>>

\* The outcome is a failure: an error with a message, and no payload; the
\* error has one of the three kinds unless it is an infrastructure error.
IsFailure(c) ==
  /\ c.err # Nil
  /\ c.result = Nil
  /\ c.err.type \in TypedKinds \cup {"error"}
  /\ c.err.Message # ""

\* C13: every outcome of Register and Login is exactly one of success and
\* failure: a success carries token, user id and username and no error; a
\* failure carries a kind and a message and no token or user id.
C13_SuccessXorFailure ==
  \A p \in Procs :
    call[p].pc = "done" => (IsSuccess(call[p]) /\ ~IsFailure(call[p]))
                           \/ (IsFailure(call[p]) /\ ~IsSuccess(call[p]))

\* After a registration succeeded, a login of that user with another
\* password failed with the Unauthorized kind.
C13_Witness ==
  /\ Returned(1, "Login")
  /\ \E r \in regs : r.Username = call[1].trimmedUsername
                     /\ r.Password # call[1].cmd.Password
  /\ IsFailure(call[1])
  /\ call[1].err.type = "UnauthorizedError"

\* The outcome a Register of cmd has on the table rows.
RegisterOutcome(cmd, rows) ==
  IF validateRegister(cmd) # Nil THEN "Validation"
  ELSE IF HasUsername(rows, TrimSpace(cmd.Username)) THEN "ConflictUsername"
  ELSE IF HasEmail(rows, ToLower(TrimSpace(cmd.Email))) THEN "ConflictEmail"
  ELSE "Success"

\* The outcome a Login of cmd has on the table rows: the password is
\* right when it verifies against the hash and salt of the user's row.
LoginOutcome(cmd, rows) ==
  IF validateLogin(cmd) # Nil THEN "Validation"
  ELSE IF ~HasUsername(rows, TrimSpace(cmd.Username)) THEN "UnknownUser"
  ELSE IF \E i \in 1..Len(rows) :
            /\ rows[i].Username = TrimSpace(cmd.Username)
            /\ ~VerifyPassword(cmd.Password, rows[i].PasswordHash,
                               rows[i].PasswordSalt).valid
    THEN "WrongPassword"
  ELSE "Success"

\* The outcome the call c returned.
Outcome(c) ==
  CASE c.err = Nil /\ c.result # Nil -> "Success"
    [] c.err.type = "ValidationError" /\ c.result = Nil -> "Validation"
    [] c.op = "Register" /\ c.err = ConflictError(MsgUsernameTaken) -> "ConflictUsername"
    [] c.op = "Register" /\ c.err = ConflictError(MsgEmailTaken) -> "ConflictEmail"
    [] c.op = "Login" /\ c.err.type = "UnauthorizedError" /\ c.called = <<"GetByUsername">>
         -> "UnknownUser"
    [] c.op = "Login" /\ c.err.type = "UnauthorizedError"
       /\ c.called = <<"GetByUsername", "VerifyPassword">> -> "WrongPassword"
    [] OTHER -> "Other"

\* C14: when no collaborator fails, a Register ends in exactly one of
\* Validation, Conflict on the username, Conflict on the email, Success, and
\* a Login in exactly one of Validation, Unauthorized for an unknown user,
\* Unauthorized for a wrong password, Success; which one is decided by the
\* command and the store contents alone.
C14_TerminalOutcomes ==
  \A p \in Procs :
    /\ (Returned(p, "Register") /\ call[p].err \notin Injected)
       => /\ Outcome(call[p]) = RegisterOutcome(call[p].cmd, call[p].before)
          /\ call[p].err.type # "UnauthorizedError"
    /\ (Returned(p, "Login") /\ call[p].err \notin Injected)
       => /\ Outcome(call[p]) = LoginOutcome(call[p].cmd, call[p].before)
          /\ call[p].err.type # "ConflictError"

\* With a user stored, a login of an unknown user returned Unauthorized.
C14_Witness ==
  /\ Len(users) = 1
  /\ Returned(1, "Login")
  /\ validateLogin(call[1].cmd) = Nil
  /\ Outcome(call[1]) = "UnknownUser"

\* C15: the HTTP boundary answers a success with 200 and {token, userId,
\* username}, a Validation failure with 400, a Conflict with 409, an
\* Unauthorized with 401, each with the failure's message; the older
\* controller does the same and answers any other failure kind with 400.
C15_StatusMapping ==
  /\ \A p \in Procs :
       call[p].pc = "done" =>
         LET c == call[p]
             response == HandlerResponse(c)
         IN /\ c.err = Nil =>
                 /\ response.status = StatusOK
                 /\ response.body = [token |-> c.result.Token, userId |-> c.result.UserID,
                                     username |-> c.result.Username]
            /\ c.err.type = "ValidationError" =>
                 response = [status |-> 400, body |-> [message |-> c.err.Message]]
            /\ c.err.type = "ConflictError" =>
                 response = [status |-> 409, body |-> [message |-> c.err.Message]]
            /\ c.err.type = "UnauthorizedError" =>
                 response = [status |-> 401, body |-> [message |-> c.err.Message]]
  /\ \A kind \in AuthErrorTypes :
       mapAuthErrorToStatus(kind) =
         CASE kind = "conflict" -> 409
           [] kind = "unauthorized" -> 401
           [] OTHER -> 400

\* A registration was answered 409 for a stored email.
C15_Witness ==
  /\ Returned(1, "Register")
  /\ call[1].err = ConflictError(MsgEmailTaken)
  /\ HandlerResponse(call[1]).status = StatusConflict

\* The passwords for which HashPassword returned the pair (hash, salt).
HashedTo(hash, salt) ==
  {hashCalls[i].password :
     i \in {j \in 1..Len(hashCalls) : hashCalls[j].hash = hash /\ hashCalls[j].salt = salt}}

\* VerifyPassword was called on a pair that HashPassword returned.
VerifiedReturnedPair ==
  /\ hasherCall # NotRun
  /\ hasherCall.op = "VerifyPassword"
  /\ HashedTo(hasherCall.hash, hasherCall.salt) # {}

\* C16: for every password p and every (hash, salt) that HashPassword(p)
\* returned, VerifyPassword(p, hash, salt) is true, without error, and
\* VerifyPassword(q, hash, salt) is false for every other password q.
C16_HashVerifyRoundTrip ==
  VerifiedReturnedPair =>
    \A p \in HashedTo(hasherCall.hash, hasherCall.salt) :
      /\ hasherCall.password = p => hasherCall.valid /\ hasherCall.err = Nil
      /\ hasherCall.password # p => ~hasherCall.valid

\* Two passwords that differ in one letter were hashed; the first was
\* then verified, with success, against its own pair.
C16_Witness ==
  /\ VerifiedReturnedPair
  /\ Len(hashCalls) >= 2
  /\ hashCalls[1].password = Passw0rd
  /\ hashCalls[2].password = Passw0rD
  /\ hasherCall.hash = hashCalls[1].hash
  /\ hasherCall.password = Passw0rd
  /\ hasherCall.valid

C18_VerifyErrorsOnlyOnStorage ==
  (hasherCall # NotRun /\ hasherCall.op = "VerifyPassword")
  => /\ hasherCall.err # Nil => ~IsBase64(hasherCall.hash) \/ ~IsBase64(hasherCall.salt)
     /\ ( /\ IsBase64(hasherCall.hash) /\ IsBase64(hasherCall.salt)
          /\ hasherCall.password \notin HashedTo(hasherCall.hash, hasherCall.salt) )
        => ~hasherCall.valid /\ hasherCall.err = Nil

\* C19: HashPassword does not reject the empty password: it returns a
\* non-empty hash and salt without error (the random source working), and
\* VerifyPassword of the empty password on that pair is true.
C19_EmptyPasswordHashes ==
  /\ ( /\ hasherCall # NotRun
       /\ hasherCall.op = "HashPassword"
       /\ hasherCall.password = <<>>
       /\ hasherCall.err # ErrGenerateSalt )
     => /\ hasherCall.err = Nil
        /\ hasherCall.hash # <<>>
        /\ hasherCall.salt # <<>>
  /\ ( /\ VerifiedReturnedPair
       /\ hasherCall.password = <<>>
       /\ <<>> \in HashedTo(hasherCall.hash, hasherCall.salt) )
     => hasherCall.valid /\ hasherCall.err = Nil

RECURSIVE DecimalValue(_)
DecimalValue(text) ==
  IF text = <<>> THEN 0
  ELSE LET d == text[Len(text)]
           v == CHOOSE n \in 0..9 :
                  <<"0", "1", "2", "3", "4", "5", "6", "7", "8", "9">>[n + 1] = d
       IN 10 * DecimalValue(SubSeq(text, 1, Len(text) - 1)) + v

\* C21: every issued token has the user's id as subject, the user's
\* username as name claim, the configured issuer and audience, and an expiry
\* equal to its issued-at time plus the configured lifetime in hours, which
\* is strictly later than issued-at.
C21_TokenClaims ==
  \A i \in 1..Len(issuedTokens) :
    LET t == issuedTokens[i]
        o == tokenGenerator.options
    IN /\ t.sub # <<>>
       /\ DecimalValue(t.sub) = t.user.ID
       /\ t.name = t.user.Username
       /\ t.iss = o.Issuer
       /\ t.aud = <<o.Audience>>
       /\ t.exp = t.iat + o.AccessTokenLifetimeHours * 3600
       /\ t.exp > t.iat

\* A generator with the longest lifetime has signed tokens for two users,
\* one of them between two seconds.
C21_Witness ==
  /\ tokenGenerator # NotRun
  /\ tokenGenerator.err = Nil
  /\ tokenGenerator.options.AccessTokenLifetimeHours = maxLifetimeHours
  /\ Len(issuedTokens) >= 2
  /\ issuedTokens[1].user # issuedTokens[2].user
  /\ issuedTokens[2].now = 1500

\* A text with no character other than spaces, and a key with no byte other
\* than white space.
BlankText(s) == \A i \in 1..Len(s) : s[i] = " "

BlankKey(key) == \A i \in 1..Len(key) : key[i] \in {9, 10, 11, 12, 13, 32}

\* The key decodes to at least 32 bytes, issuer and audience are not blank
\* and the lifetime is between 1 and 168 hours.
DecodesAndInRange(o) ==
  /\ decodeKey(o.Key).err = Nil
  /\ Len(decodeKey(o.Key).bytes) >= 32
  /\ ~BlankText(o.Issuer)
  /\ ~BlankText(o.Audience)
  /\ o.AccessTokenLifetimeHours \in 1..168

\* No generator exists for refused options, the generator that exists holds
\* the options and the decoded key, and tokens are signed only by a
\* generator that exists.
OnlyValidGenerators(valid) ==
  /\ tokenGenerator.generator # Nil <=> tokenGenerator.err = Nil
  /\ tokenGenerator.generator # Nil
     => /\ valid
        /\ tokenGenerator.generator.options = tokenGenerator.options
        /\ tokenGenerator.generator.signingKey = decodeKey(tokenGenerator.options.Key).bytes
        /\ Len(tokenGenerator.generator.signingKey) >= 32
  /\ issuedTokens # <<>> => tokenGenerator.generator # Nil

\* C22 as amended: constructing the token issuer succeeds exactly when the
\* key is not blank and decodes to at least 32 bytes, issuer and audience
\* are non-blank and the lifetime is between 1 and 168 hours; otherwise
\* construction fails, so no issuer with an invalid configuration exists.
C22_ConstructionIffValid ==
  tokenGenerator # NotRun
  => LET valid == /\ ~BlankKey(tokenGenerator.options.Key)
                  /\ DecodesAndInRange(tokenGenerator.options)
     IN /\ tokenGenerator.err = Nil <=> valid
        /\ OnlyValidGenerators(valid)

\* A generator built from a raw key of 32 bytes and the longest lifetime has
\* signed a token.
C22_Witness ==
  /\ tokenGenerator # NotRun
  /\ tokenGenerator.err = Nil
  /\ tokenGenerator.options.Key = Rep(97, 32)
  /\ tokenGenerator.options.AccessTokenLifetimeHours = 168
  /\ issuedTokens # <<>>

\* C22 as stated: constructing the token issuer succeeds exactly when the
\* key decodes to at least 32 bytes, issuer and audience are non-blank and
\* the lifetime is between 1 and 168 hours.
C22_Original ==
  tokenGenerator # NotRun
  => /\ tokenGenerator.err = Nil <=> DecodesAndInRange(tokenGenerator.options)
     /\ OnlyValidGenerators(DecodesAndInRange(tokenGenerator.options))

\* DecodeKey was called with k raw and with the marker and the base64 text
\* of k.
BothForms(raw, marked) ==
  /\ raw \in keyCalls
  /\ marked \in keyCalls
  /\ marked.key = base64Prefix \o EncodeToString(raw.key)

\* C23 as amended: for every key byte string k that does not itself start
\* with the marker "base64:", supplying the key raw as k and supplying it as
\* the marker followed by the base64 encoding of k decode to the same
\* effective signing key (k itself).
C23_BothFormsSameKey ==
  \A raw, marked \in keyCalls :
    (BothForms(raw, marked) /\ ~HasPrefix(raw.key, base64Prefix))
    => /\ raw.err = Nil
       /\ marked.err = Nil
       /\ raw.bytes = marked.bytes
       /\ raw.bytes = raw.key

\* Both forms of a key of 32 letters and of a key that is no text were
\* decoded.
C23_Witness ==
  \E raw, marked, rawBytes, markedBytes \in keyCalls :
    /\ BothForms(raw, marked)
    /\ raw.key = Rep(97, 32)
    /\ BothForms(rawBytes, markedBytes)
    /\ rawBytes.key = <<0, 255, 16>>

\* C23 as stated: for every key byte string k, the raw form and the marked
\* base64 form decode to the same effective signing key.
C23_Original ==
  \A raw, marked \in keyCalls :
    BothForms(raw, marked)
    => /\ raw.err = Nil
       /\ marked.err = Nil
       /\ raw.bytes = marked.bytes

\* A text without the spaces at its ends, and a text with its capital
\* letters made small.
RECURSIVE Stripped(_)
Stripped(s) ==
  IF s = <<>> THEN s
  ELSE IF s[1] = " " THEN Stripped(SubSeq(s, 2, Len(s)))
  ELSE IF s[Len(s)] = " " THEN Stripped(SubSeq(s, 1, Len(s) - 1))
  ELSE s

SmallLetter(c) ==
  IF \E l \in {"a", "b", "d", "p", "e_acute"} : FoldChar(l) = c
  THEN CHOOSE l \in {"a", "b", "d", "p", "e_acute"} : FoldChar(l) = c
  ELSE c

Lowered(s) == [i \in 1..Len(s) |-> SmallLetter(s[i])]

\* C24: on every successful Register the store gains exactly one user,
\* whose username is the trimmed input username and whose e-mail is the
\* trimmed, lower-cased input e-mail (the form that was checked for
\* existence), and the returned username is the trimmed username.
C24_StoresNormalised ==
  \A p \in Procs :
    (Returned(p, "Register") /\ call[p].err = Nil)
    => LET c == call[p]
           n == Len(c.before)
       IN /\ Len(c.after) = n + 1
          /\ SubSeq(c.after, 1, n) = c.before
          /\ users = c.after
          /\ c.after[n + 1].Username = Stripped(c.cmd.Username)
          /\ c.after[n + 1].Email = Lowered(Stripped(c.cmd.Email))
          /\ ~HasEmail(c.before, Lowered(Stripped(c.cmd.Email)))
          /\ c.result # Nil
          /\ c.result.Username = Stripped(c.cmd.Username)
          /\ c.result.UserID = c.after[n + 1].ID

\* " bob " registered with " A@x.y": both are stored without the blanks,
\* the e-mail in small letters.
C24_Witness ==
  /\ Returned(1, "Register")
  /\ call[1].err = Nil
  /\ call[1].cmd.Username = PadBob
  /\ call[1].cmd.Email = EmailAVar
  /\ users[Len(users)].Username = Bob
  /\ users[Len(users)].Email = EmailA

\* C25: user construction fails whenever any of username, e-mail,
\* passwordHash or passwordSalt is empty or whitespace-only, so every
\* constructed user has four non-blank string fields.
C25_NewUserRejectsBlank ==
  (userCall # NotRun /\ userCall.out # NotRun)
  => /\ ( \/ BlankText(userCall.username)
          \/ BlankText(userCall.email)
          \/ BlankText(userCall.passwordHash)
          \/ BlankText(userCall.passwordSalt) )
        => userCall.out.err # Nil /\ userCall.out.user = Nil
     /\ userCall.out.user # Nil
        => /\ ~BlankText(userCall.out.user.Username)
           /\ ~BlankText(userCall.out.user.Email)
           /\ ~BlankText(userCall.out.user.PasswordHash)
           /\ ~BlankText(userCall.out.user.PasswordSalt)

\* C26: once a user is stored, no later Register or Login call, successful
\* or failed, changes that user's id, username, e-mail, password hash or
\* salt, and a Login never changes the store at all.
C26_StoredUsersFrozen ==
  [][ /\ Len(users') >= Len(users)
      /\ \A i \in 1..Len(users) : users'[i] = users[i]
      /\ (\E p \in Procs : call[p].pc = "idle" /\ call'[p].op = "Login")
         => users' = users ]_vars

\* With two users stored, a Login of the first one has returned success.
C26_Witness ==
  /\ Len(users) = 2
  /\ Returned(1, "Login")
  /\ call[1].err = Nil
  /\ call[1].result.UserID = 1

\* The collaborators of Register, in the order of the pipeline.
RegisterPipeline ==
  <<"UsernameExists", "EmailExists", "HashPassword", "Add", "GenerateToken">>

IsPrefix(s, t) == Len(s) <= Len(t) /\ SubSeq(t, 1, Len(s)) = s

\* The last collaborator the call invoked.
LastCalled(c) == IF c.called = <<>> THEN "none" ELSE c.called[Len(c.called)]

\* C27: during Register the collaborators are invoked in the order
\* UsernameExists, EmailExists, Hash, Add, Issue, each at most once, and a
\* step runs only if every earlier step passed: nothing runs after the step
\* that failed, on a username conflict EmailExists, Hash and Add are never
\* invoked, and on an e-mail conflict Hash and Add are never invoked.
C27_PipelineOrder ==
  \A p \in Procs :
    call[p].op = "Register"
    => LET c == call[p]
       IN /\ IsPrefix(c.called, RegisterPipeline)
          /\ c.pc = "EmailExists" => c.called = SubSeq(RegisterPipeline, 1, 1)
          /\ c.pc = "Add" => c.called = SubSeq(RegisterPipeline, 1, 3)
          /\ (c.pc = "done" /\ c.err = Nil) => c.called = RegisterPipeline
          /\ (c.pc = "done" /\ c.err = ConflictError(MsgUsernameTaken))
             => c.called = SubSeq(RegisterPipeline, 1, 1)
          /\ (c.pc = "done" /\ c.err = ConflictError(MsgEmailTaken))
             => c.called = SubSeq(RegisterPipeline, 1, 2)
          /\ (c.pc = "done" /\ c.err.type = "ValidationError")
             => c.called = <<>>
          /\ (c.pc = "done" /\ c.err = ErrCtxCanceled) => c.called = <<>>
          /\ (c.pc = "done" /\ c.err = ErrGenerateSalt) => LastCalled(c) = "HashPassword"
          /\ (c.pc = "done" /\ c.err = ErrSignToken) => LastCalled(c) = "GenerateToken"
          /\ (c.pc = "done" /\ c.err = ErrDatabase)
             => LastCalled(c) \in {"UsernameExists", "EmailExists", "Add"}
                /\ LastCalled(c) = c.fault

\* A Register stopped at the e-mail conflict, with a user stored before it.
C27_Witness ==
  /\ Returned(1, "Register")
  /\ call[1].err = ConflictError(MsgEmailTaken)
  /\ call[1].called = <<"UsernameExists", "EmailExists">>
  /\ Len(users) = 1

\* C28: with a valid username and e-mail, Register fails with the
\* at-least-8 message exactly when the non-blank password has fewer than 8
\* characters, and with the at-most-512 message exactly when it has more
\* than 512 characters, each character counted once whatever the number of
\* bytes of its encoding.
C28_PasswordLengthInCharacters ==
  ( /\ vres # NotRun
    /\ vcmd.Username = Bob
    /\ vcmd.Email = EmailA
    /\ ~BlankText(vcmd.Password) )
  => /\ vres = ValidationError(MsgPasswordShort) <=> Len(vcmd.Password) < 8
     /\ vres = ValidationError(MsgPasswordLong) <=> Len(vcmd.Password) > 512

\* C29: in every sequence or interleaving of Register and Login calls, a
\* Login returns Success for trimmed username u and password p only if an
\* earlier Register succeeded with trimmed username u and exactly password
\* p, and the userId it returns is the id the store assigned to that
\* registration.
C29_LoginOnlyAfterRegister ==
  \A p \in Procs :
    (Returned(p, "Login") /\ call[p].err = Nil)
    => \E r \in regs :
         /\ r.Username = Stripped(call[p].cmd.Username)
         /\ r.Password = call[p].cmd.Password
         /\ r.UserID = call[p].result.UserID
         /\ \E i \in 1..Len(users) : users[i].ID = r.UserID /\ users[i].Username = r.Username

\* The AuthErrorType that stands for a typed error.
KindOf(type) ==
  CASE type = "ValidationError" -> AuthErrorTypeValidation
    [] type = "ConflictError" -> AuthErrorTypeConflict
    [] type = "UnauthorizedError" -> AuthErrorTypeUnauthorized
    [] OTHER -> AuthErrorTypeUnknown

\* C30: the two auth services are outcome-equivalent: for every command
\* and every store state they make the same store changes and produce
\* corresponding results: Success with the same userId and username, or the
\* same kind (validation / conflict / unauthorized) with the same message,
\* or an infrastructure error in both.
C30_ServicesEquivalent ==
  (call[1].pc = "done" /\ legacyCall # NotRun)
  => LET c == call[1]
         l == legacyCall
     IN /\ c.after = l.after
        /\ c.err = Nil <=> (l.err = Nil /\ l.result.Success)
        /\ c.err = Nil
           => /\ l.result.UserID = c.result.UserID
              /\ l.result.Username = c.result.Username
              /\ l.result.Token = c.result.Token
        /\ c.err.type \in {"ValidationError", "ConflictError", "UnauthorizedError"}
           <=> (l.err = Nil /\ ~l.result.Success)
        /\ (l.err = Nil /\ ~l.result.Success)
           => /\ l.result.ErrorType = KindOf(c.err.type)
              /\ l.result.ErrorMessage = c.err.Message
              /\ l.result.UserID = 0
        /\ c.err.type = "error" <=> l.err # Nil
        /\ l.err # Nil => l.err = c.err /\ ~l.result.Success

\* With one user stored, both services refused a second one whose e-mail
\* differs from the stored one by case and a blank.
C30_Witness ==
  /\ call[1].pc = "done"
  /\ call[1].op = "Register"
  /\ legacyCall # NotRun
  /\ Len(call[1].before) = 1
  /\ call[1].cmd.Email = EmailAVar
  /\ call[1].err = ConflictError(MsgEmailTaken)
  /\ legacyCall.result.ErrorType = AuthErrorTypeConflict

=============================================================================
